---- MODULE Spec2Model ----
(***************************************************************************)
(* Content ingestion pipeline of confluence-llm:                           *)
(*   - normalize_url            (standardscraper.py)                       *)
(*   - scrape, the crawl driver (standardscraper.py)                       *)
(*   - chunk_soup, the chunker  (standardscraper.py)                       *)
(*   - sync_confluence_space    (confluence_ingest.py)                     *)
(* Strings are modelled as sequences of one-character strings.             *)
(***************************************************************************)
EXTENDS Integers, Sequences, FiniteSets, TLC

(***************************************************************************)
(* Text helpers (Python str operations used by the source).                *)
(***************************************************************************)

\* str.find(c, start): first position >= from holding c, 0 when absent
\* (positions are 1-based here, Python's are 0-based).
Find(s, c, from) ==
  LET hits == {i \in from..Len(s) : s[i] = c}
  IN IF hits = {} THEN 0 ELSE CHOOSE i \in hits : \A j \in hits : i <= j

\* str.rfind(c): last position holding c, 0 when absent.
RFind(s, c) ==
  LET hits == {i \in 1..Len(s) : s[i] = c}
  IN IF hits = {} THEN 0 ELSE CHOOSE i \in hits : \A j \in hits : i >= j

\* s[i:] and s[:i] in Python slicing, 1-based inclusive bounds here.
From(s, i) == SubSeq(s, i, Len(s))
Upto(s, i) == SubSeq(s, 1, i)

\* "sub in s"
Contains(s, sub) ==
  \E i \in 1..(Len(s) - Len(sub) + 1) : SubSeq(s, i, i + Len(sub) - 1) = sub

\* s.startswith(pre)
StartsWith(s, pre) == Len(s) >= Len(pre) /\ SubSeq(s, 1, Len(pre)) = pre

UpperLetters == {"A", "B", "H", "P", "T"}
LowerLetters == {"a", "b", "c", "d", "e", "f", "g", "h", "i", "j", "k", "l",
                 "m", "n", "o", "p", "q", "r", "s", "t", "u", "v", "w", "x",
                 "y", "z"}

\* str.lower() on one character
LowerChar(c) ==
  CASE c = "A" -> "a"
    [] c = "B" -> "b"
    [] c = "H" -> "h"
    [] c = "P" -> "p"
    [] c = "T" -> "t"
    [] OTHER -> c

Lower(s) == [i \in 1..Len(s) |-> LowerChar(s[i])]

(***************************************************************************)
(* urllib.parse.urlparse as called by normalize_url, extract_domain and    *)
(* is_valid_scheme.                                                        *)
(***************************************************************************)

\* urllib's scheme_chars restricted to the characters of the model
scheme_chars == UpperLetters \cup LowerLetters \cup {".", "+", "-"}

\* urllib's uses_params restricted to the schemes the model can spell
uses_params == { <<>>, <<"h","t","t","p">>, <<"h","t","t","p","s">>,
                 <<"f","t","p">>, <<"t","e","l">> }

\* urlsplit, the scheme: the text before the first ":" when it starts with
\* a letter and holds scheme characters only
HasScheme(url) ==
  LET i == Find(url, ":", 1)
  IN /\ i > 1
     /\ url[1] \in UpperLetters \cup LowerLetters
     /\ \A k \in 1..(i - 1) : url[k] \in scheme_chars

SchemeOf(url) ==
  IF HasScheme(url) THEN Lower(Upto(url, Find(url, ":", 1) - 1)) ELSE <<>>

AfterScheme(url) ==
  IF HasScheme(url) THEN From(url, Find(url, ":", 1) + 1) ELSE url

\* _splitnetloc(url, 2): the netloc ends at the first of "/", "?", "#"
NetlocEnd(u) ==
  LET delims == {k \in 3..Len(u) : u[k] \in {"/", "?", "#"}}
  IN IF delims = {} THEN Len(u) + 1
     ELSE CHOOSE k \in delims : \A j \in delims : k <= j

NetlocOf(u) ==
  IF StartsWith(u, <<"/", "/">>) THEN SubSeq(u, 3, NetlocEnd(u) - 1) ELSE <<>>

AfterNetloc(u) ==
  IF StartsWith(u, <<"/", "/">>) THEN From(u, NetlocEnd(u)) ELSE u

\* s.split(c, 1): the text before and after the first c
BeforeChar(s, c) ==
  LET i == Find(s, c, 1) IN IF i > 0 THEN Upto(s, i - 1) ELSE s

AfterChar(s, c) ==
  LET i == Find(s, c, 1) IN IF i > 0 THEN From(s, i + 1) ELSE <<>>

\* urlsplit: scheme, netloc, path, query, fragment
urlsplit(url) ==
  LET rest == AfterNetloc(AfterScheme(url))
  IN [scheme   |-> SchemeOf(url),
      netloc   |-> NetlocOf(AfterScheme(url)),
      path     |-> BeforeChar(BeforeChar(rest, "#"), "?"),
      query    |-> AfterChar(BeforeChar(rest, "#"), "?"),
      fragment |-> AfterChar(rest, "#")]

\* _splitparams: the path without the parameters of its last segment
splitparams(path) ==
  LET slash == RFind(path, "/")
      i == IF slash > 0 THEN Find(path, ";", slash) ELSE Find(path, ";", 1)
  IN IF i = 0 THEN path ELSE Upto(path, i - 1)

\* urlparse: urlsplit, then the parameters are cut off the path
StripParams(r) ==
  IF r.scheme \in uses_params /\ Find(r.path, ";", 1) > 0
  THEN [r EXCEPT !.path = splitparams(r.path)]
  ELSE r

urlparse(url) == StripParams(urlsplit(url))

\* lines 177-178: one trailing slash is removed from the path
StripTrailingSlash(path) ==
  IF path # <<>> /\ path[Len(path)] = "/"
  THEN Upto(path, Len(path) - 1)
  ELSE path

\* lines 185-189: scheme://netloc/path?query, without the fragment
Reconstruct(scheme, netloc, path, query) ==
  LET normalized == scheme \o <<":", "/", "/">> \o netloc \o path
  IN IF query # <<>> THEN normalized \o <<"?">> \o query ELSE normalized

\* normalize_url (the except branch needs a ValueError from urlparse, which
\* only bracketed hosts raise; the model's alphabet has no brackets)
Normalized(parsed) ==
  Reconstruct(Lower(parsed.scheme), Lower(parsed.netloc),
              StripTrailingSlash(parsed.path), parsed.query)

normalize_url(url) == Normalized(urlparse(url))

\* extract_domain
extract_domain(url) == urlparse(url).netloc

\* is_valid_scheme: "http" in scheme
is_valid_scheme(url) == Contains(urlparse(url).scheme, <<"h","t","t","p">>)

(***************************************************************************)
(* State.                                                                  *)
(***************************************************************************)
VARIABLES
  \* normalize_url applied once and twice to an input
  nu_pc, nu_url, nu_once, nu_twice,
  \* scrape: the processed_urls collection, the in-memory deque and the
  \* locals of the loop; start_urls is the argument of the latest call and
  \* trace records what happened to the current item
  pc, ledger, queue, url, content_length, downloaded_size, content_buffer,
  links, runs, start_urls, trace,
  \* chunk_soup: the parsed document, the pruned node list with the position
  \* of the traversal in it, and the nonlocals of the chunker; flush_calls
  \* numbers the calls of flush_buffer that emitted chunks
  ch_pc, soup, nodes, pos, page_title, buffer, heading_stack, all_chunks,
  total_chars_processed, flush_calls,
  \* sync_confluence_space: the space (confluence_pages), the clock, the
  \* stop flag, the state file (sync_state), the locals of a run, the
  \* metadata table and the chunk collection; sync_runs, ingest_calls,
  \* settled, quiet and last_item record what the runs did
  sync_pc, confluence_pages, clock, edits, stop_flag, sync_state, incremental,
  last_sync, now_ts, start, pages, metadata_map, item, confluence_meta,
  web_chunks, sync_runs, ingest_calls, settled, quiet, last_item,
  \* scrape run by several processes on one processed_urls collection: the
  \* collection (w_ledger) and, for each process, its place in scrape, its
  \* deque, its item and the normalized urls it has still to offer to the
  \* queue; w_appended and w_requested record its queue.append and
  \* requests.get calls
  w_ledger, w_pc, w_queue, w_url, w_todo, w_appended, w_requested

normVars == <<nu_pc, nu_url, nu_once, nu_twice>>

scrapeVars == <<pc, ledger, queue, url, content_length, downloaded_size,
                content_buffer, links, runs, start_urls, trace>>

chunkVars == <<ch_pc, soup, nodes, pos, page_title, buffer, heading_stack,
               all_chunks, total_chars_processed, flush_calls>>

syncVars == <<sync_pc, confluence_pages, clock, edits, stop_flag, sync_state,
              incremental, last_sync, now_ts, start, pages, metadata_map, item,
              confluence_meta, web_chunks, sync_runs, ingest_calls, settled,
              quiet, last_item>>

workerVars == <<w_ledger, w_pc, w_queue, w_url, w_todo, w_appended,
                w_requested>>

vars == <<normVars, scrapeVars, chunkVars, syncVars, workerVars>>

\* what the steps of one component leave alone
notNorm == <<scrapeVars, chunkVars, syncVars, workerVars>>
notScrape == <<normVars, chunkVars, syncVars, workerVars>>
notChunk == <<normVars, scrapeVars, syncVars, workerVars>>
notSync == <<normVars, scrapeVars, chunkVars, workerVars>>
notWorkers == <<normVars, scrapeVars, chunkVars, syncVars>>

(***************************************************************************)
(* normalize_url on bounded inputs.                                        *)
(***************************************************************************)

\* longest path part of an input URL
MaxPathLen == 3

SeqsUpTo(S, n) == UNION {[1..k -> S] : k \in 0..n}

SchemeParts == { <<>>, <<"h","t","t","p",":">>, <<"H","T","T","P",":">> }
NetlocParts == { <<>>, <<"/","/","a">>, <<"/","/","A">> }
PathParts   == SeqsUpTo({"/", "b", ";"}, MaxPathLen)
QueryParts  == { <<>>, <<"?">>, <<"?","q">>, <<"?","q","/">> }
FragParts   == { <<>>, <<"#">>, <<"#","f">> }

NormInputs ==
  { s \o n \o p \o q \o f :
      s \in SchemeParts, n \in NetlocParts, p \in PathParts,
      q \in QueryParts, f \in FragParts }

NormIdle ==
  /\ nu_pc = "idle" /\ nu_url = <<>> /\ nu_once = <<>> /\ nu_twice = <<>>

NormInit ==
  /\ nu_pc = "input"
  /\ nu_url \in NormInputs
  /\ nu_once = <<>>
  /\ nu_twice = <<>>

NormalizeOnce ==
  /\ nu_pc = "input"
  /\ nu_once' = normalize_url(nu_url)
  /\ nu_pc' = "once"
  /\ UNCHANGED <<nu_url, nu_twice>>
  /\ UNCHANGED notNorm

NormalizeTwice ==
  /\ nu_pc = "once"
  /\ nu_twice' = normalize_url(nu_once)
  /\ nu_pc' = "twice"
  /\ UNCHANGED <<nu_url, nu_once>>
  /\ UNCHANGED notNorm

NormNext == NormalizeOnce \/ NormalizeTwice

\* C1: normalize_url is idempotent: normalizing a normalized URL returns
\* it unchanged, for every input (trailing slashes, fragments, queries).
C1_Idempotent == nu_pc = "twice" => nu_twice = nu_once

(***************************************************************************)
(* scrape: the crawl driver and its ledger (processed_urls collection).    *)
(***************************************************************************)

\* Memory safety limits, scaled down (5000 entries, 5 MB, 8192-byte reads,
\* a query limit of 10000 in the source).
MAX_QUEUE_SIZE == 3
MAX_HTML_SIZE_BYTES == 3
chunk_size == 2
PENDING_LIMIT == 6

\* number of scrape runs (process starts) explored
MaxRuns == 2

\* response.headers.get gives None when the header is absent
NoHeader == -1
NoUrl == <<>>

\* --- the ledger: a sequence of records [url, status], 0 Pending, 1 Done.
\* client.insert appends a record (Milvus does not reject a repeated
\* primary key); client.upsert replaces the records of that key by one.

\* is_url_known with the filter of get_pending_urls (status == 0)
is_url_known_pending_only(l, u) ==
  \E i \in 1..Len(l) : l[i].url = u /\ l[i].status = 0

\* is_url_known with the filter of is_url_processed (status == 1)
is_url_known_done_only(l, u) ==
  \E i \in 1..Len(l) : l[i].url = u /\ l[i].status = 1

is_url_known(l, u) == \E i \in 1..Len(l) : l[i].url = u

is_url_processed(l, u) == \E i \in 1..Len(l) : l[i].url = u /\ l[i].status = 1

get_pending_urls(l) ==
  LET pend == SelectSeq(l, LAMBDA r : r.status = 0)
      n == IF Len(pend) < PENDING_LIMIT THEN Len(pend) ELSE PENDING_LIMIT
  IN [i \in 1..n |-> pend[i].url]

\* add_url_to_db that writes status 1 whatever it is given
add_url_as_done(l, u, status) == Append(l, [url |-> u, status |-> 1])

add_url_to_db(l, u, status) == Append(l, [url |-> u, status |-> status])

\* mark_url_processed that writes status 0
mark_url_pending(l, u) ==
  Append(SelectSeq(l, LAMBDA r : r.url # u), [url |-> u, status |-> 0])

mark_url_processed(l, u) ==
  Append(SelectSeq(l, LAMBDA r : r.url # u), [url |-> u, status |-> 1])

\* --- the site that is crawled: raw hrefs of the <a> elements of each page,
\* each with whether it sits in a region chunk_soup prunes (nav, header,
\* footer).  NoHref is an <a> without href.

HTTP == <<"h","t","t","p",":","/","/">>
NoHref == <<"N","o","n","e">>
Href(h, nav) == [href |-> h, nav |-> nav]

U_a    == HTTP \o <<"a">>
U_ab   == HTTP \o <<"a","/","b">>
U_abs  == HTTP \o <<"a","/","b","/">>
U_ac   == HTTP \o <<"a","/","c">>
U_img  == HTTP \o <<"a","/","i",".","p","n","g">>
U_xd   == HTTP \o <<"x","/","d">>
U_ftp  == <<"f","t","p",":","/","/","a","/","f">>
U_hx   == <<"h","t","t","p","x",":","/","/","a","/","y">>

PageLinks(u) ==
  CASE u = U_a ->
         << Href(<<"/","b">>, FALSE),
            Href(<<"H","T","T","P",":","/","/","A","/","b","/","#","f">>, FALSE),
            Href(NoHref, FALSE),
            Href(U_xd, FALSE),
            Href(<<"m","a","i","l","t","o",":","m">>, FALSE),
            Href(<<"/","i",".","p","n","g">>, TRUE),
            Href(U_ftp, FALSE) >>
    [] u \in {U_ab, U_abs} ->
         << Href(<<"/">>, TRUE),
            Href(<<"c">>, FALSE),
            Href(<<"/","b","/","/">>, FALSE) >>
    [] u = U_ac ->
         << Href(<<"/","b">>, FALSE), Href(<<"b">>, FALSE) >>
    [] OTHER -> << >>

\* start_urls given to scrape
StartUrls ==
  { << <<"H","T","T","P",":","/","/","A","/">> >>,
    << U_a, U_ab >>,
    << U_ab, U_abs, U_xd, U_ftp, U_img >>,
    << U_hx >> }

\* --- lines 145-151: make the href absolute
\* url.rsplit('/', 1)[0]
RSplitHead(u) == LET i == RFind(u, "/") IN IF i = 0 THEN u ELSE Upto(u, i - 1)

ResolveHref(u, href) ==
  IF StartsWith(href, <<"/">>)
  THEN LET parsed_uri == urlparse(u)
       IN parsed_uri.scheme \o <<":","/","/">> \o parsed_uri.netloc \o href
  ELSE IF /\ ~StartsWith(href, <<"h","t","t","p">>)
          /\ ~StartsWith(href, <<"m","a","i","l","t","o",":">>)
          /\ ~StartsWith(href, <<"t","e","l",":">>)
       THEN RSplitHead(u) \o <<"/">> \o href
       ELSE href

\* line 124: a known image extension somewhere in the URL
IsImageUrl(u) ==
  \/ Contains(u, <<".","j","p","g">>)
  \/ Contains(u, <<".","p","n","g">>)
  \/ Contains(u, <<".","g","i","f">>)
  \/ Contains(u, <<".","j","p","e","g">>)

\* an enqueue that writes the Pending record before it looks at the queue
EnqueueRecordFirst(st, norm) ==
  IF is_url_known(st.ledger, norm) THEN st
  ELSE IF Len(st.queue) >= MAX_QUEUE_SIZE
       THEN [st EXCEPT !.ledger = add_url_to_db(st.ledger, norm, 0)]
  ELSE [ledger |-> add_url_to_db(st.ledger, norm, 0),
        queue |-> Append(st.queue, norm)]

\* an enqueue that does not ask is_url_known and writes the record anew
EnqueueUnchecked(st, norm) ==
  IF Len(st.queue) >= MAX_QUEUE_SIZE THEN st
  ELSE [ledger |-> mark_url_pending(st.ledger, norm),
        queue |-> Append(st.queue, norm)]

\* lines 54-60 and 157-163: the enqueue attempt for a normalized URL on
\* st = [ledger, queue]
Enqueue(st, norm) ==
  IF is_url_known(st.ledger, norm) THEN st
  ELSE IF Len(st.queue) >= MAX_QUEUE_SIZE THEN st
  ELSE [ledger |-> add_url_to_db(st.ledger, norm, 0),
        queue |-> Append(st.queue, norm)]

\* lines 52-60: the loop over start_urls
RECURSIVE AddStartUrls(_, _)
AddStartUrls(st, seeds) ==
  IF seeds = <<>> THEN st
  ELSE AddStartUrls(Enqueue(st, normalize_url(Head(seeds))),
                    Tail(seeds))

\* lines 156-163 without the comparison of the domains
AnyDomainEnqueue(st, current_domain, norm_href) == Enqueue(st, norm_href)

\* lines 156-163: a normalized link of the page's own domain is enqueued
SameDomainEnqueue(st, current_domain, norm_href) ==
  IF extract_domain(norm_href) = current_domain
  THEN Enqueue(st, norm_href)
  ELSE st

\* lines 134-163: what one <a> element x of the page u does to
\* st = [ledger, queue]
FollowLink(st, u, x) ==
  IF x.href = NoHref THEN st
  ELSE SameDomainEnqueue(st, extract_domain(u),
                         normalize_url(ResolveHref(u, x.href)))

NoTrace == [url |-> NoUrl, declared |-> NoHeader, read |-> 0,
            chunked |-> FALSE, extracted |-> FALSE, outcome |-> "none"]

ScrapeIdle ==
  /\ pc = "idle"
  /\ ledger = <<>>
  /\ queue = <<>>
  /\ url = NoUrl
  /\ content_length = NoHeader
  /\ downloaded_size = 0
  /\ content_buffer = 0
  /\ links = <<>>
  /\ runs = 0
  /\ start_urls = <<>>
  /\ trace = NoTrace

ScrapeInit == ScrapeIdle

\* lines 39-62: a run starts: reload the Pending entries, add the seeds
StartRun ==
  /\ pc = "idle"
  /\ runs < MaxRuns
  /\ \E seeds \in StartUrls :
       \E st \in {AddStartUrls([ledger |-> ledger,
                                queue |-> get_pending_urls(ledger)],
                               seeds)} :
          /\ start_urls' = seeds
          /\ ledger' = st.ledger
          /\ queue' = st.queue
  /\ pc' = "loop"
  /\ runs' = runs + 1
  /\ trace' = NoTrace
  /\ UNCHANGED <<url, content_length, downloaded_size, content_buffer,
                 links>>
  /\ UNCHANGED notScrape

\* deque.pop(): the item at the right end
pop(q) == [item |-> q[Len(q)], rest |-> Upto(q, Len(q) - 1)]

\* line 65: deque.popleft()
popleft(q) == [item |-> Head(q), rest |-> Tail(q)]

\* lines 64-75: popleft, skip a processed URL, reject an invalid scheme
Dequeue ==
  /\ pc = "loop"
  /\ queue # <<>>
  /\ LET u == popleft(queue).item
     IN /\ url' = u
        /\ queue' = popleft(queue).rest
        /\ IF is_url_processed(ledger, u)
           THEN /\ pc' = "loop"
                /\ ledger' = ledger
                /\ trace' = [NoTrace EXCEPT !.url = u, !.outcome = "skipped"]
           ELSE IF ~is_valid_scheme(u)
           THEN /\ pc' = "loop"
                /\ ledger' = mark_url_processed(ledger, u)
                /\ trace' = [NoTrace EXCEPT !.url = u, !.outcome = "bad_scheme"]
           ELSE /\ pc' = "request"
                /\ ledger' = ledger
                /\ trace' = [NoTrace EXCEPT !.url = u]
  /\ UNCHANGED <<content_length, downloaded_size, content_buffer, links, runs,
                 start_urls>>
  /\ UNCHANGED notScrape

\* line 64: the queue is empty, scrape returns
Finish ==
  /\ pc = "loop"
  /\ queue = <<>>
  /\ pc' = "idle"
  /\ UNCHANGED <<ledger, queue, url, content_length, downloaded_size,
                 content_buffer, links, runs, start_urls, trace>>
  /\ UNCHANGED notScrape

\* what requests.get can give: an exception, or a status and the headers
Responses ==
  [kind : {"exception"}, status : {0}, content_length : {NoHeader}]
  \cup
  [kind : {"response"}, status : {200, 404},
   content_length : {NoHeader, 0, MAX_HTML_SIZE_BYTES, MAX_HTML_SIZE_BYTES + 1}]

\* requests mounts a connection adapter for the prefixes "http://" and
\* "https://" only; for any other URL requests.get raises InvalidSchema
HasAdapter(u) ==
  \/ StartsWith(Lower(u), HTTP)
  \/ StartsWith(Lower(u), <<"h","t","t","p","s",":","/","/">>)

ResponsesFor(u) ==
  IF HasAdapter(u) THEN Responses ELSE {r \in Responses : r.kind = "exception"}

\* line 92 without the comparison: the header is never acted on
DeclaredIgnored(cl, limit) == FALSE

\* line 92: the declared size is over the limit
DeclaredOverLimit(cl, limit) == cl # NoHeader /\ cl > limit

\* lines 78-100 and 118-121: the request, the status, the Content-Length
Request ==
  /\ pc = "request"
  /\ \E resp \in ResponsesFor(url) :
       LET limit == MAX_HTML_SIZE_BYTES
           t == [trace EXCEPT !.declared = resp.content_length]
       IN IF resp.kind = "exception"
          THEN /\ ledger' = mark_url_processed(ledger, url)
               /\ pc' = "loop"
               /\ trace' = [trace EXCEPT !.outcome = "exception"]
               /\ UNCHANGED <<content_length, downloaded_size, content_buffer>>
          ELSE IF resp.status # 200
          THEN /\ ledger' = mark_url_processed(ledger, url)
               /\ pc' = "loop"
               /\ trace' = [t EXCEPT !.outcome = "http_error"]
               /\ UNCHANGED <<content_length, downloaded_size, content_buffer>>
          ELSE IF DeclaredOverLimit(resp.content_length, limit)
          THEN /\ ledger' = mark_url_processed(ledger, url)
               /\ pc' = "loop"
               /\ content_length' = resp.content_length
               /\ trace' = [t EXCEPT !.outcome = "declared_too_big"]
               /\ UNCHANGED <<downloaded_size, content_buffer>>
          ELSE /\ ledger' = ledger
               /\ pc' = "stream"
               /\ content_length' = resp.content_length
               /\ downloaded_size' = 0
               /\ content_buffer' = 0
               /\ trace' = t
  /\ UNCHANGED <<queue, url, links, runs, start_urls>>
  /\ UNCHANGED notScrape

\* line 104 without the comparison: the download is never aborted
SizeNeverExceeded(size, limit) == FALSE

\* line 104: the bytes received so far are over the limit
SizeExceeded(size, limit) == size > limit

\* lines 102-112: one turn of the iter_content loop
ReadChunk ==
  /\ pc = "stream"
  /\ \E n \in 1..chunk_size :
       /\ downloaded_size' = downloaded_size + n
       /\ IF SizeExceeded(downloaded_size + n, MAX_HTML_SIZE_BYTES)
          THEN /\ ledger' = mark_url_processed(ledger, url)
               /\ pc' = "loop"
               /\ content_buffer' = content_buffer
               /\ trace' = [trace EXCEPT !.read = @ + 1,
                                         !.outcome = "stream_too_big"]
          ELSE /\ ledger' = ledger
               /\ pc' = "stream"
               /\ content_buffer' = content_buffer + n
               /\ trace' = [trace EXCEPT !.read = @ + 1]
  /\ UNCHANGED <<queue, url, content_length, links, runs, start_urls>>
  /\ UNCHANGED notScrape

\* lines 118-121: the connection fails while the body is read
StreamError ==
  /\ pc = "stream"
  /\ ledger' = mark_url_processed(ledger, url)
  /\ pc' = "loop"
  /\ trace' = [trace EXCEPT !.outcome = "exception"]
  /\ UNCHANGED <<queue, url, content_length, downloaded_size, content_buffer,
                 links, runs, start_urls>>
  /\ UNCHANGED notScrape

\* lines 110-126: the body ended under the limit; the image check
EndOfBody ==
  /\ pc = "stream"
  /\ IF IsImageUrl(url)
     THEN /\ ledger' = mark_url_processed(ledger, url)
          /\ pc' = "loop"
          /\ trace' = [trace EXCEPT !.outcome = "image"]
     ELSE /\ ledger' = ledger
          /\ pc' = "parse"
          /\ trace' = trace
  /\ UNCHANGED <<queue, url, content_length, downloaded_size, content_buffer,
                 links, runs, start_urls>>
  /\ UNCHANGED notScrape

\* lines 128-133: parse, chunk and store; chunk_soup has removed the pruned
\* regions from the tree by the time the <a> elements are selected
ParseAndChunk ==
  /\ pc = "parse"
  /\ links' = SelectSeq(PageLinks(url), LAMBDA x : ~x.nav)
  /\ pc' = "links"
  /\ trace' = [trace EXCEPT !.chunked = TRUE]
  /\ UNCHANGED <<ledger, queue, url, content_length, downloaded_size,
                 content_buffer, runs, start_urls>>
  /\ UNCHANGED notScrape

\* lines 128-129 are outside the try: an exception of the parser, of
\* chunk_soup or of db_store leaves scrape
ChunkRaises ==
  /\ pc = "parse"
  /\ pc' = "idle"
  /\ queue' = <<>>
  /\ trace' = [trace EXCEPT !.outcome = "raised"]
  /\ UNCHANGED <<ledger, url, content_length, downloaded_size, content_buffer,
                 links, runs, start_urls>>
  /\ UNCHANGED notScrape

\* lines 134-163: one <a> element
ExtractLink ==
  /\ pc = "links"
  /\ links # <<>>
  /\ \E st \in {FollowLink([ledger |-> ledger, queue |-> queue], url,
                           Head(links))} :
       /\ ledger' = st.ledger
       /\ queue' = st.queue
  /\ links' = Tail(links)
  /\ trace' = [trace EXCEPT !.extracted = TRUE]
  /\ UNCHANGED <<pc, url, content_length, downloaded_size, content_buffer, runs,
                 start_urls>>
  /\ UNCHANGED notScrape

\* line 166: the page is done
MarkProcessed ==
  /\ pc = "links"
  /\ links = <<>>
  /\ ledger' = mark_url_processed(ledger, url)
  /\ pc' = "loop"
  /\ trace' = [trace EXCEPT !.outcome = "ok"]
  /\ UNCHANGED <<queue, url, content_length, downloaded_size, content_buffer,
                 links, runs, start_urls>>
  /\ UNCHANGED notScrape

\* the process is interrupted (KeyboardInterrupt, kill): the deque is lost,
\* the ledger stays
Interrupt ==
  /\ pc # "idle"
  /\ pc' = "idle"
  /\ queue' = <<>>
  /\ UNCHANGED <<ledger, url, content_length, downloaded_size, content_buffer,
                 links, runs, start_urls, trace>>
  /\ UNCHANGED notScrape



ScrapeNext ==
  \/ StartRun
  \/ Dequeue
  \/ Finish
  \/ Request
  \/ ReadChunk
  \/ StreamError
  \/ EndOfBody
  \/ ParseAndChunk
  \/ ChunkRaises
  \/ ExtractLink
  \/ MarkProcessed
  \/ Interrupt

\* an interrupt of a run that is not the last one explored
InterruptEarlier ==
  /\ runs < MaxRuns
  /\ Interrupt

\* the runs when the last one is left to run to its end
ScrapeLiveNext ==
  \/ StartRun
  \/ Dequeue
  \/ Finish
  \/ Request
  \/ ReadChunk
  \/ StreamError
  \/ EndOfBody
  \/ ParseAndChunk
  \/ ChunkRaises
  \/ ExtractLink
  \/ MarkProcessed
  \/ InterruptEarlier

(***************************************************************************)
(* scrape run by one or two processes on the same processed_urls           *)
(* collection.  Each process has its own deque; the calls on the           *)
(* collection are the steps that interleave, so is_url_known and           *)
(* add_url_to_db of one enqueue are two steps.                             *)
(***************************************************************************)

Workers == {1, 2}

WorkerSeeds == { << U_a >>, << U_a, U_ab >> }

\* lines 131-156: the <a> elements left in the tree, made absolute and
\* normalized, those of the domain of the page
RECURSIVE SameDomainLinks(_, _)
SameDomainLinks(u, xs) ==
  IF xs = <<>> THEN <<>>
  ELSE LET x == Head(xs)
           norm == normalize_url(ResolveHref(u, x.href))
       IN IF x.href # NoHref /\ extract_domain(norm) = extract_domain(u)
          THEN <<norm>> \o SameDomainLinks(u, Tail(xs))
          ELSE SameDomainLinks(u, Tail(xs))

NormalizedSeeds(seeds) == [i \in 1..Len(seeds) |-> normalize_url(seeds[i])]

WorkersIdle ==
  /\ w_ledger = <<>>
  /\ w_pc = [w \in Workers |-> "off"]
  /\ w_queue = [w \in Workers |-> <<>>]
  /\ w_url = [w \in Workers |-> NoUrl]
  /\ w_todo = [w \in Workers |-> <<>>]
  /\ w_appended = [w \in Workers |-> <<>>]
  /\ w_requested = [w \in Workers |-> <<>>]

\* one process or two are about to call scrape
WorkersInit ==
  /\ w_ledger = <<>>
  /\ \E n \in Workers :
       w_pc = [w \in Workers |-> IF w <= n THEN "start" ELSE "off"]
  /\ w_queue = [w \in Workers |-> <<>>]
  /\ w_url = [w \in Workers |-> NoUrl]
  /\ w_todo = [w \in Workers |-> <<>>]
  /\ w_appended = [w \in Workers |-> <<>>]
  /\ w_requested = [w \in Workers |-> <<>>]

\* lines 39-52: the Pending entries are reloaded, the seeds are next
WorkerStart ==
  \E w \in Workers :
    /\ w_pc[w] = "start"
    /\ \E seeds \in WorkerSeeds :
         w_todo' = [w_todo EXCEPT ![w] = NormalizedSeeds(seeds)]
    /\ w_queue' = [w_queue EXCEPT ![w] = get_pending_urls(w_ledger)]
    /\ w_pc' = [w_pc EXCEPT ![w] = "enqueue"]
    /\ UNCHANGED <<w_ledger, w_url, w_appended, w_requested>>
    /\ UNCHANGED notWorkers

\* lines 55-56 and 157-159: is_url_known and the size of the deque
WorkerCheck ==
  \E w \in Workers :
    /\ w_pc[w] = "enqueue"
    /\ w_todo[w] # <<>>
    /\ IF \/ is_url_known(w_ledger, Head(w_todo[w]))
          \/ Len(w_queue[w]) >= MAX_QUEUE_SIZE
       THEN /\ w_todo' = [w_todo EXCEPT ![w] = Tail(@)]
            /\ w_pc' = w_pc
       ELSE /\ w_todo' = w_todo
            /\ w_pc' = [w_pc EXCEPT ![w] = "insert"]
    /\ UNCHANGED <<w_ledger, w_queue, w_url, w_appended, w_requested>>
    /\ UNCHANGED notWorkers

\* lines 57-58 and 160-161: add_url_to_db and queue.append
WorkerInsert ==
  \E w \in Workers :
    /\ w_pc[w] = "insert"
    /\ w_ledger' = add_url_to_db(w_ledger, Head(w_todo[w]), 0)
    /\ w_queue' = [w_queue EXCEPT ![w] = Append(@, Head(w_todo[w]))]
    /\ w_appended' = [w_appended EXCEPT ![w] = Append(@, Head(w_todo[w]))]
    /\ w_todo' = [w_todo EXCEPT ![w] = Tail(@)]
    /\ w_pc' = [w_pc EXCEPT ![w] = "enqueue"]
    /\ UNCHANGED <<w_url, w_requested>>
    /\ UNCHANGED notWorkers

\* line 62 after the seeds; line 166 after the links of a page
WorkerEnqueued ==
  \E w \in Workers :
    /\ w_pc[w] = "enqueue"
    /\ w_todo[w] = <<>>
    /\ w_ledger' = IF w_url[w] = NoUrl THEN w_ledger
                   ELSE mark_url_processed(w_ledger, w_url[w])
    /\ w_pc' = [w_pc EXCEPT ![w] = "loop"]
    /\ UNCHANGED <<w_queue, w_url, w_todo, w_appended, w_requested>>
    /\ UNCHANGED notWorkers

\* lines 64-75
WorkerDequeue ==
  \E w \in Workers :
    /\ w_pc[w] = "loop"
    /\ w_queue[w] # <<>>
    /\ w_url' = [w_url EXCEPT ![w] = popleft(w_queue[w]).item]
    /\ w_queue' = [w_queue EXCEPT ![w] = popleft(w_queue[w]).rest]
    /\ IF is_url_processed(w_ledger, popleft(w_queue[w]).item)
       THEN UNCHANGED <<w_ledger, w_pc>>
       ELSE IF ~is_valid_scheme(popleft(w_queue[w]).item)
       THEN /\ w_ledger' =
                 mark_url_processed(w_ledger, popleft(w_queue[w]).item)
            /\ w_pc' = w_pc
       ELSE /\ w_ledger' = w_ledger
            /\ w_pc' = [w_pc EXCEPT ![w] = "request"]
    /\ UNCHANGED <<w_todo, w_appended, w_requested>>
    /\ UNCHANGED notWorkers

\* lines 78-126: the request ends the item (exception, status, size,
\* image), marked Done
WorkerFetchFails ==
  \E w \in Workers :
    /\ w_pc[w] = "request"
    /\ w_requested' = [w_requested EXCEPT ![w] = Append(@, w_url[w])]
    /\ w_ledger' = mark_url_processed(w_ledger, w_url[w])
    /\ w_pc' = [w_pc EXCEPT ![w] = "loop"]
    /\ UNCHANGED <<w_queue, w_url, w_todo, w_appended>>
    /\ UNCHANGED notWorkers

\* lines 78-133: the page is fetched and chunked, its links are next
WorkerFetch ==
  \E w \in Workers :
    /\ w_pc[w] = "request"
    /\ ~IsImageUrl(w_url[w])
    /\ w_requested' = [w_requested EXCEPT ![w] = Append(@, w_url[w])]
    /\ w_todo' =
         [w_todo EXCEPT ![w] =
            SameDomainLinks(w_url[w],
                            SelectSeq(PageLinks(w_url[w]), LAMBDA x : ~x.nav))]
    /\ w_pc' = [w_pc EXCEPT ![w] = "enqueue"]
    /\ UNCHANGED <<w_ledger, w_queue, w_url, w_appended>>
    /\ UNCHANGED notWorkers

\* line 64: the deque is empty, scrape returns
WorkerFinish ==
  \E w \in Workers :
    /\ w_pc[w] = "loop"
    /\ w_queue[w] = <<>>
    /\ w_pc' = [w_pc EXCEPT ![w] = "done"]
    /\ UNCHANGED <<w_ledger, w_queue, w_url, w_todo, w_appended,
                   w_requested>>
    /\ UNCHANGED notWorkers

WorkersNext ==
  \/ WorkerStart
  \/ WorkerCheck
  \/ WorkerInsert
  \/ WorkerEnqueued
  \/ WorkerDequeue
  \/ WorkerFetchFails
  \/ WorkerFetch
  \/ WorkerFinish

(***************************************************************************)
(* Properties of scrape.                                                   *)
(***************************************************************************)

RecordsOf(u) == {i \in 1..Len(ledger) : ledger[i].url = u}

\* C2: frontier uniqueness: the ledger holds at most one record per
\* normalized identifier, and exactly one for every identifier that was
\* enqueued (it is in the queue or is the item being processed), however
\* often it is discovered again.
C2_FrontierUnique ==
  /\ \A i, j \in 1..Len(ledger) : ledger[i].url = ledger[j].url => i = j
  /\ \A k \in 1..Len(queue) : Cardinality(RecordsOf(queue[k])) = 1
  /\ pc \in {"request", "stream", "parse", "links"}
       => Cardinality(RecordsOf(url)) = 1

\* the page http://a has had its two links to http://a/b followed after
\* http://a/b was already enqueued
C2_Witness ==
  /\ pc = "links"
  /\ url = U_a
  /\ Len(links) = 4
  /\ Cardinality(RecordsOf(U_ab)) = 1
  /\ Len(ledger) >= 2

IsDone(l, u) == \E i \in 1..Len(l) : l[i].url = u /\ l[i].status = 1
IsPending(l, u) == \E i \in 1..Len(l) : l[i].url = u /\ l[i].status = 0
UrlsOf(l) == {l[i].url : i \in 1..Len(l)}
InQueue(u) == \E k \in 1..Len(queue) : queue[k] = u

\* C11: the in-memory queue never holds more than MAX_QUEUE_SIZE entries,
\* also right after the Pending entries are reloaded at start-up.
C11_QueueBound == Len(queue) <= MAX_QUEUE_SIZE

\* the outcomes that end an iteration of the loop for an item that was
\* dequeued and not Done
TerminalOutcomes ==
  {"bad_scheme", "http_error", "declared_too_big", "stream_too_big",
   "exception", "image", "ok"}

\* C12: an item that was dequeued and not Done is Done when its iteration
\* has ended with any of the terminal outcomes: invalid scheme, non-success
\* status, declared size or streamed size over the ceiling, fetch exception,
\* image URL, successful chunking.
C12_ForwardProgress ==
  trace.outcome \in TerminalOutcomes => IsDone(ledger, trace.url)

C12_Witness ==
  /\ pc = "loop"
  /\ trace.outcome = "stream_too_big"
  /\ trace.read >= 2
  /\ IsDone(ledger, trace.url)

\* C13: every entry that is Pending in the ledger when a run starts is put
\* in the queue and is eventually dequeued and processed (Done) by that run;
\* stated for the entry http://a/b.
C13_RestartRecovery ==
  (pc = "idle" /\ runs = MaxRuns - 1 /\ IsPending(ledger, U_ab))
    ~> IsDone(ledger, U_ab)

\* C14: once an identifier is Done it stays Done and no request is made
\* for it again: not when it is found again as a link, not in a later run,
\* not when it is given again as a seed.
C14_NoRefetch ==
  [][/\ \A u \in UrlsOf(ledger) : IsDone(ledger, u) => IsDone(ledger', u)
     /\ pc' = "request" => ~IsDone(ledger', url')]_vars

\* http://a/c is being processed in a second run, its link to the Done
\* http://a/b has been followed and http://a/b is not in the queue
C14_Witness ==
  /\ runs = 2
  /\ pc = "links"
  /\ url = U_ac
  /\ Len(links) <= 1
  /\ IsDone(ledger, U_ab)
  /\ ~InQueue(U_ab)

\* C15: when parsing or chunking a fetched page raises, the page is taken
\* to have no chunks, its item is marked Done and the loop goes on.
C15_BadPageContinues ==
  trace.outcome = "raised" => IsDone(ledger, trace.url) /\ pc = "loop"

\* the identifiers a step adds to the ledger
NewUrls == UrlsOf(ledger') \ UrlsOf(ledger)

SeedUrls ==
  UNION {{normalize_url(l[i]) : i \in 1..Len(l)} : l \in StartUrls}

\* C17: a link enqueued during link extraction has the host of the page it
\* was found on; an identifier enters the ledger as a seed or with the host
\* of the item being processed.
C17_SameHost ==
  [][/\ pc = "links" =>
          \A k \in (Len(queue) + 1)..Len(queue') :
             extract_domain(queue'[k]) = extract_domain(url)
     /\ \A u \in NewUrls :
          IF pc = "idle" THEN u \in SeedUrls
          ELSE pc = "links" /\ extract_domain(u) = extract_domain(url)]_vars

\* http://a has been processed to its last link: the links to the other
\* host x were followed and nothing of x is in the ledger
C17_Witness ==
  /\ pc = "links"
  /\ url = U_a
  /\ links = <<>>
  /\ InQueue(U_ab)
  /\ U_xd \notin UrlsOf(ledger)

IsPrefix(p, q) == Len(p) <= Len(q) /\ SubSeq(q, 1, Len(p)) = p

\* C22: within a run the items leave the queue in the order they entered
\* it: a run starts with the reloaded Pending entries followed by the
\* accepted seeds, an iteration takes exactly the item at the front, and
\* links are added at the back in the order they are found.
C22_Fifo ==
  [][/\ (pc = "idle" /\ pc' = "loop") =>
          /\ IsPrefix(get_pending_urls(ledger), queue')
          /\ \A k \in (Len(get_pending_urls(ledger)) + 1)..Len(queue') :
               queue'[k] \in SeedUrls
     /\ (pc = "loop" /\ queue # <<>> /\ pc' # "idle") =>
          url' = Head(queue) /\ queue' = Tail(queue)
     /\ (pc \notin {"idle", "loop"} /\ pc' # "idle") =>
          /\ IsPrefix(queue, queue')
          /\ url' = url]_vars

\* http://a/c, found as a link of http://a/b, is requested after the two
\* seeds http://a and http://a/b, in a run that found nothing to reload
C22_Witness ==
  /\ runs = 1
  /\ pc = "request"
  /\ url = U_ac
  /\ IsDone(ledger, U_a)
  /\ IsDone(ledger, U_ab)

\* C23: the content buffer never holds more than MAX_HTML_SIZE_BYTES; the
\* read that takes the byte count over the ceiling, declared length or not,
\* ends the download: its bytes are not written to the buffer, the item is
\* marked Done and the page is not parsed.
C23_StreamedSizeBound ==
  [][/\ content_buffer' <= MAX_HTML_SIZE_BYTES
     /\ (pc = "stream" /\ downloaded_size' > MAX_HTML_SIZE_BYTES) =>
          /\ content_buffer' = content_buffer
          /\ pc' = "loop"
          /\ IsDone(ledger', url)
          /\ ~trace'.chunked
     /\ pc' = "parse" => downloaded_size' <= MAX_HTML_SIZE_BYTES]_vars

\* a body without Content-Length: one read was written to the buffer, the
\* next one crossed the ceiling
C23_Witness ==
  /\ trace.outcome = "stream_too_big"
  /\ trace.declared = NoHeader
  /\ content_buffer > 0
  /\ downloaded_size > MAX_HTML_SIZE_BYTES
  /\ pc = "loop"

\* the same-host targets of a list of <a> elements of the page u
SameHostLinks(u, as) ==
  {normalize_url(ResolveHref(u, as[i].href)) :
     i \in {k \in 1..Len(as) :
              /\ as[k].href # NoHref
              /\ extract_domain(normalize_url(ResolveHref(u, as[k].href)))
                   = extract_domain(u)}}

\* C29: chunking a page does not change which links are discovered on it:
\* the same-host links taken from the page after it was chunked are those
\* of the page as fetched, the ones in navigation, header and footer
\* regions included.
C29_ChunkingKeepsLinks ==
  [][(pc = "parse" /\ pc' = "links") =>
        SameHostLinks(url, links') = SameHostLinks(url, PageLinks(url))]_vars

\* the link at the head of links is a new same-host identifier
HeadIsNewLink ==
  /\ pc = "links"
  /\ links # <<>>
  /\ Head(links).href # NoHref
  /\ extract_domain(normalize_url(ResolveHref(url, Head(links).href)))
       = extract_domain(url)
  /\ ~is_url_known(ledger, normalize_url(ResolveHref(url, Head(links).href)))

\* C30: a link or a seed that is rejected because the queue holds
\* MAX_QUEUE_SIZE entries changes neither the queue nor the ledger, and the
\* page goes on to its next link and to its Done mark; a run writes a
\* Pending record for a seed only together with its queue entry.
C30_RejectionLeavesFrontier ==
  [][/\ (HeadIsNewLink /\ Len(queue) >= MAX_QUEUE_SIZE /\ pc' # "idle") =>
          /\ ledger' = ledger
          /\ queue' = queue
          /\ pc' = "links"
          /\ links' = Tail(links)
     /\ (pc = "links" /\ links = <<>> /\ pc' # "idle") =>
          IsDone(ledger', url) /\ queue' = queue
     /\ (pc = "idle" /\ pc' = "loop") =>
          /\ \A u \in NewUrls :
               IsPending(ledger', u) /\ \E k \in 1..Len(queue') : queue'[k] = u
          /\ Len(ledger') - Len(ledger)
               = Len(queue') - Len(get_pending_urls(ledger))]_vars

\* http://a/b was processed to its Done mark with a full queue: its link to
\* http://a/b/ was rejected and has no record
C30_Witness ==
  /\ pc = "loop"
  /\ trace.url = U_ab
  /\ trace.outcome = "ok"
  /\ IsDone(ledger, U_ab)
  /\ Len(queue) = MAX_QUEUE_SIZE
  /\ U_abs \notin UrlsOf(ledger)

\* C31: the status of a ledger record is monotone: a record is created
\* Pending, a step changes it only from Pending to Done, a Done record is
\* never Pending again, and no record is ever deleted, over all runs.
C31_StatusMonotone ==
  [][/\ \A u \in NewUrls : IsPending(ledger', u) /\ ~IsDone(ledger', u)
     /\ \A u \in UrlsOf(ledger) :
          /\ u \in UrlsOf(ledger')
          /\ IsDone(ledger, u) => IsDone(ledger', u) /\ ~IsPending(ledger', u)
          /\ IsPending(ledger, u) => IsPending(ledger', u) \/ IsDone(ledger', u)
    ]_vars

\* a second run is under way with a record that went from Pending to Done
\* and a record that is still Pending
C31_Witness ==
  /\ runs = 2
  /\ pc = "loop"
  /\ IsDone(ledger, U_ab)
  /\ ~IsPending(ledger, U_ab)
  /\ IsPending(ledger, U_ac)

\* the item that was dequeued and is being processed
IsCurrent(u) == pc \in {"request", "stream", "parse", "links"} /\ url = u

\* C37: while a run is under way every identifier in the queue has a ledger
\* record, no identifier is in the queue more than once, and every Pending
\* record is in the queue or is the item being processed; the Pending
\* records left by earlier runs are reloaded at the start, so this covers the
\* records created during the run.
C37_QueueLedgerConsistent ==
  pc # "idle" =>
    /\ \A k \in 1..Len(queue) : is_url_known(ledger, queue[k])
    /\ \A j, k \in 1..Len(queue) : queue[j] = queue[k] => j = k
    /\ \A u \in UrlsOf(ledger) :
         IsPending(ledger, u) => InQueue(u) \/ IsCurrent(u)

\* http://a is being processed and is Pending, and its links have all been
\* followed: http://a/b is Pending and in the queue
C37_Witness ==
  /\ pc = "links"
  /\ url = U_a
  /\ IsPending(ledger, U_a)
  /\ IsPending(ledger, U_ab) /\ InQueue(U_ab)
  /\ Len(queue) >= 2
  /\ links = <<>>

\* the steps by which scrape itself leaves its loop: the return at an empty
\* queue and an exception that nothing catches
LoopLeft == Finish \/ ChunkRaises

\* C38: the scrape loop ends with an empty queue, and when it has ended
\* every ledger record that was queued during the run is Done (the Pending
\* records of earlier runs are queued by the reload, so no record is Pending).
C38_TerminatesAllDone ==
  [][LoopLeft =>
       /\ queue = <<>>
       /\ \A u \in UrlsOf(ledger') : ~IsPending(ledger', u)]_vars

NoPending(l) == \A i \in 1..Len(l) : l[i].status = 1

\* every seed of the list has a record
SeedsRecorded(l, seeds) ==
  \A i \in 1..Len(seeds) : normalize_url(seeds[i]) \in UrlsOf(l)

\* C39: running scrape again after a completed crawl does nothing.  When no
\* record is Pending (the earlier run ended at an empty queue) and every seed
\* of the new call has a record (the seeds are those of the earlier run and
\* none was dropped for capacity), the new run starts with an empty queue
\* and an unchanged ledger; and at an empty queue the loop is left without a
\* request, a chunk or a write to the ledger.
C39_RerunNoOp ==
  [][/\ (/\ pc = "idle" /\ pc' = "loop"
         /\ NoPending(ledger)
         /\ SeedsRecorded(ledger, start_urls'))
          => queue' = <<>> /\ ledger' = ledger
     /\ (pc = "loop" /\ queue = <<>>)
          => pc' = "idle" /\ ledger' = ledger /\ queue' = <<>>
    ]_vars

\* the second run, with the seeds http://a and http://a/b, has returned
\* without taking an item: the ledger, all Done, is that of the first run
C39_Witness ==
  /\ runs = 2
  /\ pc = "idle"
  /\ trace = NoTrace
  /\ start_urls = << U_a, U_ab >>
  /\ NoPending(ledger)
  /\ IsDone(ledger, U_a) /\ IsDone(ledger, U_ab) /\ IsDone(ledger, U_ac)

NoRepeat(q) == \A j, k \in 1..Len(q) : q[j] = q[k] => j = k

ActiveWorkers == {w \in Workers : w_pc[w] # "off"}

\* C36: a process never queues an identifier twice, and with exactly one
\* active process no identifier has two records or is requested twice; with
\* two processes on the same ledger both can pass is_url_known before either
\* has called add_url_to_db, and then both queue and request the identifier.
C36_SingleWorkerUnique ==
  /\ \A w \in Workers : NoRepeat(w_appended[w])
  /\ Cardinality(ActiveWorkers) = 1 =>
       /\ \A w \in Workers : NoRepeat(w_requested[w])
       /\ \A i, j \in 1..Len(w_ledger) :
            w_ledger[i].url = w_ledger[j].url => i = j

\* two processes have both queued and both requested http://a/b, which has
\* two records
C36_Witness ==
  /\ Cardinality(ActiveWorkers) = 2
  /\ \A w \in Workers :
       /\ \E k \in 1..Len(w_appended[w]) : w_appended[w][k] = U_ab
       /\ \E k \in 1..Len(w_requested[w]) : w_requested[w][k] = U_ab
  /\ \E i, j \in 1..Len(w_ledger) :
       i # j /\ w_ledger[i].url = U_ab /\ w_ledger[j].url = U_ab

ExactSchemes == { <<"h","t","t","p">>, <<"h","t","t","p","s">> }

\* C21: an item whose scheme is neither exactly http nor exactly https is
\* marked Done at the scheme test and requests.get is never called for it.
C21_SchemeGate ==
  /\ pc = "request" => urlparse(url).scheme \in ExactSchemes
  /\ (trace.outcome \notin {"none", "skipped"}
        /\ urlparse(trace.url).scheme \notin ExactSchemes)
       => trace.outcome = "bad_scheme" /\ IsDone(ledger, trace.url)

\* C20: an item whose URL shows an image extension is marked Done as
\* unsupported without any body bytes being read.
C20_ImageNotDownloaded ==
  trace.outcome = "image" => trace.read = 0 /\ IsDone(ledger, trace.url)


(***************************************************************************)
(* chunk_soup: the semantic chunker.  A text is a sequence of symbols: a   *)
(* word or a punctuation mark (one token each) or a whitespace character.  *)
(***************************************************************************)

\* max_tokens is scaled down from 450; MIN_TOKENS and OVERLAP_SENTENCES are
\* the source's; the two page caps are scaled down from 200 and 100000.
max_tokens == 20
MIN_TOKENS == 15
OVERLAP_SENTENCES == 2
MAX_CHUNKS_PER_PAGE == 4
MAX_TEXT_PER_PAGE_CHARS == 30

\* fragments (top-level pieces) of a generated document
MaxFragments == 2

IsSpace(c) == c \in {" ", "\n"}
Terminators == {".", "!", "?"}

\* count_tokens: the tokenizer gives one token per word or punctuation mark
count_tokens(text) == Cardinality({i \in 1..Len(text) : ~IsSpace(text[i])})

\* str.strip()
Strip(text) ==
  LET ink == {i \in 1..Len(text) : ~IsSpace(text[i])}
  IN IF ink = {} THEN <<>>
     ELSE SubSeq(text, CHOOSE i \in ink : \A j \in ink : i <= j,
                       CHOOSE i \in ink : \A j \in ink : i >= j)

\* re.sub(r'\s+', ' ', text)
RECURSIVE CollapseFrom(_, _)
CollapseFrom(text, afterSpace) ==
  IF text = <<>> THEN <<>>
  ELSE IF IsSpace(Head(text))
       THEN (IF afterSpace THEN <<>> ELSE <<" ">>)
            \o CollapseFrom(Tail(text), TRUE)
       ELSE <<Head(text)>> \o CollapseFrom(Tail(text), FALSE)

CollapseWhitespace(text) == CollapseFrom(text, FALSE)

\* "".join(buffer) and " ".join(sentences)
RECURSIVE Concat(_)
Concat(strs) == IF strs = <<>> THEN <<>> ELSE Head(strs) \o Concat(Tail(strs))

RECURSIVE JoinSpace(_)
JoinSpace(strs) ==
  IF strs = <<>> THEN <<>>
  ELSE IF Len(strs) = 1 THEN Head(strs)
  ELSE Head(strs) \o <<" ">> \o JoinSpace(Tail(strs))

\* re.split(r'(?<=[.!?])\s+', text): the first whitespace that follows a
\* terminator, 0 when there is none
SplitPoint(text) ==
  LET cuts == {i \in 2..Len(text) :
                 IsSpace(text[i]) /\ text[i - 1] \in Terminators}
  IN IF cuts = {} THEN 0 ELSE CHOOSE i \in cuts : \A j \in cuts : i <= j

\* the text after the whitespace run that starts at i
AfterRun(text, i) ==
  LET ink == {j \in i..Len(text) : ~IsSpace(text[j])}
  IN IF ink = {} THEN <<>>
     ELSE From(text, CHOOSE j \in ink : \A k \in ink : j <= k)

RECURSIVE SplitSentences(_)
SplitSentences(text) ==
  IF SplitPoint(text) = 0 THEN <<text>>
  ELSE <<Upto(text, SplitPoint(text) - 1)>>
       \o SplitSentences(AfterRun(text, SplitPoint(text)))

\* the body alone, whatever the context
WithoutContext(context_str, body) == body

\* f"{context_str}\n{body}" if context_str else body
WithContext(context_str, body) ==
  IF context_str # <<>> THEN context_str \o <<"\n">> \o body ELSE body

\* curr[-k:] (Python: the whole list when k = 0)
LastItems(curr, k) ==
  IF k = 0 \/ k >= Len(curr) THEN curr
  ELSE SubSeq(curr, Len(curr) - k + 1, Len(curr))

Min(a, b) == IF a < b THEN a ELSE b

\* a variant that keeps every candidate
KeepAlways(chunks, chunk_text) == Append(chunks, chunk_text)

\* lines 302-303 and 310-311: a candidate is kept when it reaches MIN_TOKENS
KeepIfLongEnough(chunks, chunk_text) ==
  IF count_tokens(chunk_text) >= MIN_TOKENS
  THEN Append(chunks, chunk_text)
  ELSE chunks

\* lines 308-311: what is left in curr after the loop
FinalChunk(chunks, curr, context_str) ==
  IF JoinSpace(curr) # <<>>
  THEN KeepIfLongEnough(chunks, WithContext(context_str, JoinSpace(curr)))
  ELSE chunks

\* lines 290-306: the loop over the sentences; curr holds the sentences of
\* the chunk being packed
RECURSIVE PackSentences(_, _, _, _)
PackSentences(sentences_content, curr, chunks, context_str) ==
  IF sentences_content = <<>> THEN FinalChunk(chunks, curr, context_str)
  ELSE IF count_tokens(WithContext(context_str,
            JoinSpace(Append(curr, Head(sentences_content))))) > max_tokens
       THEN PackSentences(
              Tail(sentences_content),
              Append(LastItems(Append(curr, Head(sentences_content)),
                               Min(Len(curr), OVERLAP_SENTENCES)),
                     Head(sentences_content)),
              KeepIfLongEnough(chunks, WithContext(context_str, JoinSpace(curr))),
              context_str)
       ELSE PackSentences(Tail(sentences_content),
                          Append(curr, Head(sentences_content)),
                          chunks, context_str)

\* split_paragraph
split_paragraph(text, context_str) ==
  PackSentences(SplitSentences(Strip(text)), <<>>, <<>>, context_str)

\* get_current_context: " > ".join([page_title] + headings)
RECURSIVE JoinHeadings(_)
JoinHeadings(stack) ==
  IF stack = <<>> THEN <<>>
  ELSE <<" ", ">", " ">> \o Head(stack).text \o JoinHeadings(Tail(stack))

get_current_context(title, stack) == title \o JoinHeadings(stack)

\* lines 373-378: the texts of the chunks of one flush
FlushTexts(text, context_str) ==
  IF count_tokens(WithContext(context_str, text)) > max_tokens
  THEN split_paragraph(text, context_str)
  ELSE <<WithContext(context_str, text)>>

\* lines 380-389: the chunk records of one flush; context, flush, split and
\* call record how the chunk came about (crawl_date is left out)
ChunkRecords(out, u, heading, context_str, kind, wasSplit, call) ==
  [i \in 1..Len(out) |->
     [text |-> out[i], url |-> u, heading |-> heading,
      site_name |-> extract_domain(u),
      context |-> context_str, flush |-> kind, split |-> wasSplit,
      call |-> call]]

current_heading(title, stack) ==
  IF stack # <<>> THEN stack[Len(stack)].text ELSE title

\* flush_buffer on st = [buffer, all_chunks, flush_calls]; kind is "soft"
\* (force=False), "heading" or "final" (force=True)
Emit(st, text, context_str, kind) ==
  [buffer |-> <<>>,
   all_chunks |-> st.all_chunks \o
     ChunkRecords(FlushTexts(text, context_str), soup.url,
                  current_heading(page_title, heading_stack), context_str,
                  kind,
                  count_tokens(WithContext(context_str, text)) > max_tokens,
                  st.flush_calls + 1),
   flush_calls |-> st.flush_calls + 1]

\* flush_buffer without lines 356-363: an empty or blank buffer is flushed
\* like any other
flush_buffer_always(st, kind) ==
  IF kind = "soft" /\ count_tokens(Strip(Concat(st.buffer))) < MIN_TOKENS
  THEN st
  ELSE Emit(st, Strip(Concat(st.buffer)),
            get_current_context(page_title, heading_stack), kind)

\* flush_buffer that takes every call for force=True
flush_buffer_forced(st, kind) ==
  IF st.buffer = <<>> THEN st
  ELSE IF Strip(Concat(st.buffer)) = <<>> THEN [st EXCEPT !.buffer = <<>>]
  ELSE Emit(st, Strip(Concat(st.buffer)),
            get_current_context(page_title, heading_stack), kind)

\* flush_buffer that takes every call for force=False
flush_buffer_soft(st, kind) ==
  IF st.buffer = <<>> THEN st
  ELSE IF Strip(Concat(st.buffer)) = <<>> THEN [st EXCEPT !.buffer = <<>>]
  ELSE IF count_tokens(Strip(Concat(st.buffer))) < MIN_TOKENS THEN st
  ELSE Emit(st, Strip(Concat(st.buffer)),
            get_current_context(page_title, heading_stack), kind)

flush_buffer(st, kind) ==
  IF st.buffer = <<>> THEN st
  ELSE IF Strip(Concat(st.buffer)) = <<>> THEN [st EXCEPT !.buffer = <<>>]
  ELSE IF kind = "soft" /\ count_tokens(Strip(Concat(st.buffer))) < MIN_TOKENS
       THEN st
  ELSE Emit(st, Strip(Concat(st.buffer)),
            get_current_context(page_title, heading_stack), kind)

EndsWith(str, c) == str # <<>> /\ str[Len(str)] = c

\* ensure_newline and ensure_space
ensure_newline(buf) ==
  IF buf # <<>> /\ ~EndsWith(buf[Len(buf)], "\n")
  THEN Append(buf, <<"\n">>)
  ELSE buf

ensure_space(buf) ==
  IF buf # <<>> /\ ~EndsWith(buf[Len(buf)], " ")
               /\ ~EndsWith(buf[Len(buf)], "\n")
  THEN Append(buf, <<" ">>)
  ELSE buf

\* lines 432-434: pop the headings of an equal or deeper level, push
RECURSIVE PopTo(_, _)
PopTo(stack, level) ==
  IF stack # <<>> /\ stack[Len(stack)].level >= level
  THEN PopTo(Upto(stack, Len(stack) - 1), level)
  ELSE stack

\* line 434 alone: the heading is pushed and nothing is popped
PushWithoutPop(stack, level, text) ==
  Append(stack, [level |-> level, text |-> text])

PushHeading(stack, level, text) ==
  Append(PopTo(stack, level), [level |-> level, text |-> text])

\* --- the parsed document: a node list in document order.  An element is
\* an "open" node, its children, and a "close" node; a heading stands for
\* itself and its text (get_text(strip=True)).

Node(k, tag, level, text) == [k |-> k, tag |-> tag, level |-> level, text |-> text]
Text(text) == Node("text", "", 0, text)
Heading(level, text) == Node("h", "h", level, text)
Open(tag) == Node("open", tag, 0, <<>>)
Close(tag) == Node("close", tag, 0, <<>>)
Br == Node("br", "br", 0, <<>>)
Element(tag, children) == <<Open(tag)>> \o children \o <<Close(tag)>>

BLOCK_TAGS == {"p", "div", "article", "section", "aside", "blockquote",
               "figure", "table", "ul", "ol", "dl", "form", "nav", "header",
               "footer", "address", "main"}

\* the tag selectors among irrelevant_selectors
irrelevant_selectors == {"header", "footer", "nav", "script", "style", "noscript"}

\* the node after the element opened at i (its matching close)
RECURSIVE MatchFrom(_, _, _)
MatchFrom(ns, j, depth) ==
  IF j > Len(ns) THEN j
  ELSE IF ns[j].k = "open" THEN MatchFrom(ns, j + 1, depth + 1)
  ELSE IF ns[j].k = "close"
       THEN (IF depth = 1 THEN j + 1 ELSE MatchFrom(ns, j + 1, depth - 1))
  ELSE MatchFrom(ns, j + 1, depth)

AfterNode(ns, i) == IF ns[i].k = "open" THEN MatchFrom(ns, i + 1, 1) ELSE i + 1

\* lines 323-325: every element an irrelevant selector matches is removed
RECURSIVE Prune(_, _)
Prune(ns, i) ==
  IF i > Len(ns) THEN <<>>
  ELSE IF ns[i].k = "open" /\ ns[i].tag \in irrelevant_selectors
       THEN Prune(ns, AfterNode(ns, i))
       ELSE <<ns[i]>> \o Prune(ns, i + 1)

\* lines 331-336: the page title, else the host
PageTitle(doc) ==
  IF Strip(doc.title) # <<>> THEN Strip(doc.title) ELSE extract_domain(doc.url)

\* lines 506-510: traversal starts at <body>; a document without <body> is
\* traversed from its root, where its <title> element is
TraversalRoot(doc) ==
  IF doc.hasBody \/ doc.title = <<>>
  THEN doc.nodes
  ELSE Element("title", <<Text(doc.title)>>) \o doc.nodes

\* --- texts of the generated documents
Sentence(w) == <<w, " ", w, " ", w, " ", w, ".">>
Words(w, n) == [i \in 1..(2 * n - 1) |-> IF i % 2 = 1 THEN w ELSE " "]

TxtShort == <<" ", "a", ".", " ">>
TxtRuns  == <<"b", "\n", " ", "b", "!">>
TxtBlank == <<" ", "\n">>
TxtMid   == JoinSpace(<<Sentence("a"), Sentence("b"), Sentence("c")>>)
TxtLong  == JoinSpace(<<Sentence("d"), Sentence("e"), Sentence("f"),
                        Sentence("g")>>)
TxtHuge  == Words("z", max_tokens) \o <<".">>
TxtTail  == JoinSpace(<<Sentence("o"), Words("q", MIN_TOKENS) \o <<".">>>>)
TxtLonger == JoinSpace(<<Sentence("h"), Sentence("i"), Sentence("j"),
                         Sentence("k"), Sentence("l"), Sentence("m"),
                         Sentence("n")>>)

Fragments ==
  { Element("p", <<Text(TxtShort)>>),
    Element("p", <<Text(TxtMid)>>),
    Element("div", <<Text(TxtLong)>>),
    Element("p", <<Text(TxtHuge)>>),
    Element("div", <<Text(TxtLonger)>>),
    <<Text(TxtTail)>>,
    <<Heading(1, <<"X">>)>>,
    <<Heading(2, <<"Y">>)>>,
    <<Heading(3, <<"Z">>)>>,
    <<Heading(1, <<>>)>>,
    Element("ul", Element("li", <<Text(TxtShort)>>)
                  \o Element("li", <<Text(TxtMid)>>)),
    Element("table", Element("tr", Element("td", <<Text(TxtShort)>>)
                                   \o Element("th", <<Text(TxtShort)>>))),
    Element("dl", Element("dt", <<Text(TxtShort)>>)
                  \o Element("dd", <<Text(TxtShort)>>)),
    <<Text(TxtRuns), Br>> \o Element("span", <<Text(TxtBlank)>>),
    Element("nav", <<Text(TxtMid)>>) }

RECURSIVE FragmentSeqs(_)
FragmentSeqs(n) ==
  IF n = 0 THEN { <<>> }
  ELSE FragmentSeqs(n - 1)
       \cup { d \o f : d \in FragmentSeqs(n - 1), f \in Fragments }

\* the document of the end-to-end example (it has no <body>)
ExampleTitle == <<"Solar", " ", "Array">>
ExampleP1 == <<"The", " ", "array", " ", "has", " ", "forty", " ", "panels",
               " ", "rated", " ", "at", " ", "5kW", " ", "total", ".">>
ExampleP2 == <<"Wiring", " ", "uses", " ", "10AWG", " ", "cable", ".">>
ExampleDoc ==
  [url |-> U_a, title |-> ExampleTitle, hasBody |-> FALSE,
   nodes |-> <<Heading(1, <<"Overview">>)>>
             \o Element("p", <<Text(ExampleP1)>>)
             \o <<Heading(2, <<"Wiring">>)>>
             \o Element("p", <<Text(ExampleP2)>>)]

Documents ==
  { [url |-> U_a, title |-> t, hasBody |-> b, nodes |-> d] :
      t \in { <<>>, <<"T">> }, b \in BOOLEAN, d \in FragmentSeqs(MaxFragments) }
  \cup { ExampleDoc }

NoDoc == [url |-> NoUrl, title |-> <<>>, hasBody |-> FALSE, nodes |-> <<>>]

ChunkIdle ==
  /\ ch_pc = "idle"
  /\ soup = NoDoc
  /\ nodes = <<>>
  /\ pos = 0
  /\ page_title = <<>>
  /\ buffer = <<>>
  /\ heading_stack = <<>>
  /\ all_chunks = <<>>
  /\ total_chars_processed = 0
  /\ flush_calls = 0

ChunkInit ==
  /\ ch_pc = "start"
  /\ soup \in Documents
  /\ nodes = <<>>
  /\ pos = 0
  /\ page_title = <<>>
  /\ buffer = <<>>
  /\ heading_stack = <<>>
  /\ all_chunks = <<>>
  /\ total_chars_processed = 0
  /\ flush_calls = 0

\* the chunker's state as flush_buffer takes it
ChunkState(buf) ==
  [buffer |-> buf, all_chunks |-> all_chunks, flush_calls |-> flush_calls]

\* lines 404-407: the caps checked when traverse enters a node
CapReached ==
  \/ Len(all_chunks) >= MAX_CHUNKS_PER_PAGE
  \/ total_chars_processed >= MAX_TEXT_PER_PAGE_CHARS

AtNode == ch_pc = "traverse" /\ pos <= Len(nodes)
Entering(k) == AtNode /\ nodes[pos].k = k /\ ~CapReached
EnteringTag(tags) == Entering("open") /\ nodes[pos].tag \in tags
LeavingTag(tags) == AtNode /\ nodes[pos].k = "close" /\ nodes[pos].tag \in tags

\* lines 318-344: prune, take the title, start at the root
StartChunking ==
  /\ ch_pc = "start"
  /\ nodes' = TraversalRoot([soup EXCEPT !.nodes = Prune(soup.nodes, 1)])
  /\ page_title' = PageTitle(soup)
  /\ pos' = 1
  /\ ch_pc' = "traverse"
  /\ UNCHANGED <<soup, buffer, heading_stack, all_chunks,
                 total_chars_processed, flush_calls>>
  /\ UNCHANGED notChunk

\* lines 404-407: a cap is reached, the node and its subtree are left out
SkipNode ==
  /\ AtNode
  /\ nodes[pos].k # "close"
  /\ CapReached
  /\ pos' = AfterNode(nodes, pos)
  /\ UNCHANGED <<ch_pc, soup, nodes, page_title, buffer, heading_stack,
                 all_chunks, total_chars_processed, flush_calls>>
  /\ UNCHANGED notChunk

\* lines 409-422: a text node
VisitText ==
  /\ Entering("text")
  /\ IF Strip(nodes[pos].text) # <<>>
     THEN /\ buffer' = Append(buffer, CollapseWhitespace(nodes[pos].text))
          /\ total_chars_processed' =
               total_chars_processed + Len(CollapseWhitespace(nodes[pos].text))
     ELSE UNCHANGED <<buffer, total_chars_processed>>
  /\ pos' = pos + 1
  /\ UNCHANGED <<ch_pc, soup, nodes, page_title, heading_stack, all_chunks,
                 flush_calls>>
  /\ UNCHANGED notChunk

\* lines 426-438: a heading: forced flush, then the stack
VisitHeading ==
  /\ Entering("h")
  /\ \E st \in {flush_buffer(ChunkState(buffer), "heading")} :
       /\ buffer' = st.buffer
       /\ all_chunks' = st.all_chunks
       /\ flush_calls' = st.flush_calls
  /\ heading_stack' =
       IF nodes[pos].text # <<>>
       THEN PushHeading(heading_stack, nodes[pos].level, nodes[pos].text)
       ELSE heading_stack
  /\ pos' = pos + 1
  /\ UNCHANGED <<ch_pc, soup, nodes, page_title, total_chars_processed>>
  /\ UNCHANGED notChunk

\* lines 441-443: a block element opens: newline, soft flush
EnterBlock ==
  /\ EnteringTag(BLOCK_TAGS)
  /\ \E st \in {flush_buffer(ChunkState(ensure_newline(buffer)), "soft")} :
       /\ buffer' = st.buffer
       /\ all_chunks' = st.all_chunks
       /\ flush_calls' = st.flush_calls
  /\ pos' = pos + 1
  /\ UNCHANGED <<ch_pc, soup, nodes, page_title, heading_stack,
                 total_chars_processed>>
  /\ UNCHANGED notChunk

\* lines 448-450: a block element closes: newline, soft flush
LeaveBlock ==
  /\ LeavingTag(BLOCK_TAGS)
  /\ \E st \in {flush_buffer(ChunkState(ensure_newline(buffer)), "soft")} :
       /\ buffer' = st.buffer
       /\ all_chunks' = st.all_chunks
       /\ flush_calls' = st.flush_calls
  /\ pos' = pos + 1
  /\ UNCHANGED <<ch_pc, soup, nodes, page_title, heading_stack,
                 total_chars_processed>>
  /\ UNCHANGED notChunk

\* lines 453-468: a list item: newline and the bullet
EnterListItem ==
  /\ EnteringTag({"li"})
  /\ buffer' = Append(ensure_newline(buffer), <<"-", " ">>)
  /\ pos' = pos + 1
  /\ UNCHANGED <<ch_pc, soup, nodes, page_title, heading_stack, all_chunks,
                 total_chars_processed, flush_calls>>
  /\ UNCHANGED notChunk

\* lines 471-475: a definition term opens
EnterDefTerm ==
  /\ EnteringTag({"dt"})
  /\ buffer' = Append(ensure_newline(buffer), <<"**">>)
  /\ pos' = pos + 1
  /\ UNCHANGED <<ch_pc, soup, nodes, page_title, heading_stack, all_chunks,
                 total_chars_processed, flush_calls>>
  /\ UNCHANGED notChunk

\* lines 476-477: a definition term closes
LeaveDefTerm ==
  /\ LeavingTag({"dt"})
  /\ buffer' = Append(buffer, <<"**", " ">>)
  /\ pos' = pos + 1
  /\ UNCHANGED <<ch_pc, soup, nodes, page_title, heading_stack, all_chunks,
                 total_chars_processed, flush_calls>>
  /\ UNCHANGED notChunk

\* lines 478-482 and 491-494: a definition value or a table cell opens
EnterSpaced ==
  /\ EnteringTag({"dd", "td", "th"})
  /\ buffer' = ensure_space(buffer)
  /\ pos' = pos + 1
  /\ UNCHANGED <<ch_pc, soup, nodes, page_title, heading_stack, all_chunks,
                 total_chars_processed, flush_calls>>
  /\ UNCHANGED notChunk

\* lines 485-489: a table row opens
EnterRow ==
  /\ EnteringTag({"tr"})
  /\ buffer' = ensure_newline(buffer)
  /\ pos' = pos + 1
  /\ UNCHANGED <<ch_pc, soup, nodes, page_title, heading_stack, all_chunks,
                 total_chars_processed, flush_calls>>
  /\ UNCHANGED notChunk

\* lines 495-496: a table cell closes
LeaveCell ==
  /\ LeavingTag({"td", "th"})
  /\ buffer' = Append(buffer, <<" ", "|", " ">>)
  /\ pos' = pos + 1
  /\ UNCHANGED <<ch_pc, soup, nodes, page_title, heading_stack, all_chunks,
                 total_chars_processed, flush_calls>>
  /\ UNCHANGED notChunk

\* lines 498-500: <br>
VisitBr ==
  /\ Entering("br")
  /\ buffer' = Append(buffer, <<"\n">>)
  /\ pos' = pos + 1
  /\ UNCHANGED <<ch_pc, soup, nodes, page_title, heading_stack, all_chunks,
                 total_chars_processed, flush_calls>>
  /\ UNCHANGED notChunk

HandledTags == BLOCK_TAGS \cup {"li", "dt", "dd", "tr", "td", "th"}

\* lines 502-504: any other element opens; and the end of an element whose
\* handler does nothing after its children
PassThrough ==
  /\ \/ Entering("open") /\ nodes[pos].tag \notin HandledTags
     \/ AtNode /\ nodes[pos].k = "close"
               /\ nodes[pos].tag \notin BLOCK_TAGS \cup {"dt", "td", "th"}
  /\ pos' = pos + 1
  /\ UNCHANGED <<ch_pc, soup, nodes, page_title, buffer, heading_stack,
                 all_chunks, total_chars_processed, flush_calls>>
  /\ UNCHANGED notChunk

\* lines 512-515: the final flush
FinalFlush ==
  /\ ch_pc = "traverse"
  /\ pos > Len(nodes)
  /\ \E st \in {flush_buffer(ChunkState(buffer), "final")} :
       /\ buffer' = st.buffer
       /\ all_chunks' = st.all_chunks
       /\ flush_calls' = st.flush_calls
  /\ ch_pc' = "done"
  /\ UNCHANGED <<soup, nodes, pos, page_title, heading_stack,
                 total_chars_processed>>
  /\ UNCHANGED notChunk

ChunkNext ==
  \/ StartChunking
  \/ SkipNode
  \/ VisitText
  \/ VisitHeading
  \/ EnterBlock
  \/ LeaveBlock
  \/ EnterListItem
  \/ EnterDefTerm
  \/ LeaveDefTerm
  \/ EnterSpaced
  \/ EnterRow
  \/ LeaveCell
  \/ VisitBr
  \/ PassThrough
  \/ FinalFlush

\* --- Properties of the chunker.

Chunks == {all_chunks[i] : i \in 1..Len(all_chunks)}

BelowFloor(c) == count_tokens(c.text) < MIN_TOKENS

\* the body of a chunk: its text without the breadcrumb line
BodyOf(c) ==
  IF c.context # <<>> THEN From(c.text, Len(c.context) + 2) ELSE c.text

\* the first k and the last k sentences of a list
FirstSentences(sents, k) == SubSeq(sents, 1, Min(k, Len(sents)))
LastSentences(sents, k) ==
  SubSeq(sents, Len(sents) - Min(k, Len(sents)) + 1, Len(sents))

\* consecutive chunks that one call of split_paragraph produced
SplitPairs ==
  {i \in 1..(Len(all_chunks) - 1) :
     /\ all_chunks[i].split
     /\ all_chunks[i + 1].split
     /\ all_chunks[i].call = all_chunks[i + 1].call}

\* C3: every chunk chunk_soup returns has at most max_tokens tokens,
\* breadcrumb included, also when split_paragraph produced it and when one
\* sentence alone is over the ceiling.
C3_TokenCeiling == \A c \in Chunks : count_tokens(c.text) <= max_tokens

\* C4 as stated: the only chunks below MIN_TOKENS are those of the terminal
\* flush.
C4_OnlyTerminalBelowFloor == \A c \in Chunks : BelowFloor(c) => c.flush = "final"

\* C4: a chunk below MIN_TOKENS comes from a forced flush, the one before a
\* heading or the terminal one, of a buffer that fitted one chunk; no soft
\* flush and no split emits a chunk below the floor.
C4_OnlyForcedBelowFloor ==
  \A c \in Chunks : BelowFloor(c) => c.flush \in {"heading", "final"} /\ ~c.split

C4_Witness ==
  /\ ch_pc = "done"
  /\ \E c \in Chunks : BelowFloor(c) /\ c.flush = "heading"
  /\ \E c \in Chunks : BelowFloor(c) /\ c.flush = "final"

\* C5: when split_paragraph splits a buffer into consecutive chunks c1 and
\* c2, the last OVERLAP_SENTENCES sentences of c1's body are, in order, the
\* first sentences of c2's body.
C5_Overlap ==
  \A i \in SplitPairs :
    FirstSentences(SplitSentences(BodyOf(all_chunks[i + 1])), OVERLAP_SENTENCES)
      = LastSentences(SplitSentences(BodyOf(all_chunks[i])), OVERLAP_SENTENCES)

HeadingLevels == 1..6

C18_ChunkCap == Len(all_chunks) <= MAX_CHUNKS_PER_PAGE

\* the text that the final flush finds in the buffer
Remainder == Strip(Concat(buffer))

\* C19: when traversal ends with a non-blank buffer, the final flush emits at
\* least one chunk and every sentence of the buffered text is in a chunk of
\* that flush, whatever its length and also when the text has to be split.
C19_TrailingKept ==
  [][(ch_pc = "traverse" /\ pos > Len(nodes) /\ Remainder # <<>>)
       => /\ Len(all_chunks') > Len(all_chunks)
          /\ \A k \in 1..Len(SplitSentences(Remainder)) :
               \E i \in (Len(all_chunks) + 1)..Len(all_chunks') :
                 Contains(all_chunks'[i].text, SplitSentences(Remainder)[k])]_vars

\* the chunks a step appends
NewChunks == {all_chunks'[i] : i \in (Len(all_chunks) + 1)..Len(all_chunks')}

\* body is a concatenation of members of sents with whitespace between them
RECURSIVE MadeOf(_, _)
MadeOf(body, sents) ==
  \/ body = <<>>
  \/ \E s \in sents :
       /\ s # <<>>
       /\ StartsWith(body, s)
       /\ MadeOf(AfterRun(body, Len(s) + 1), sents)

SentencesOf(text) ==
  {SplitSentences(text)[k] : k \in 1..Len(SplitSentences(text))}

\* C25: no chunk spans a heading boundary.  A heading flushes the buffer
\* before the stack changes: it leaves the buffer empty, and the stack
\* changes at no other step; the chunks a step emits are made of the text
\* buffered since then and carry the breadcrumb and the heading label of
\* the stack as it was while that text was traversed.
C25_NoChunkAcrossHeading ==
  [][/\ Entering("h") => buffer' = <<>>
     /\ heading_stack' # heading_stack => Entering("h") /\ buffer' = <<>>
     /\ \A c \in NewChunks :
          /\ c.context = get_current_context(page_title, heading_stack)
          /\ c.heading = current_heading(page_title, heading_stack)
          /\ c.text = WithContext(c.context, BodyOf(c))
          /\ MadeOf(BodyOf(c), SentencesOf(Remainder))]_vars

\* a short paragraph was flushed by the heading that follows it: its chunk
\* carries the title alone although the stack now holds the heading
C25_Witness ==
  /\ heading_stack # <<>>
  /\ buffer = <<>>
  /\ \E i \in 1..Len(all_chunks) :
       /\ all_chunks[i].flush = "heading"
       /\ BelowFloor(all_chunks[i])
       /\ all_chunks[i].context = page_title
       /\ all_chunks[i].heading = page_title

\* the words that the documents have in headings only, in no text node
HeadingWords == {"X", "Y", "Z", "Overview"}

\* C26: a heading that is followed by no content before the next heading,
\* or before the end of the document, produces no chunk: the forced flush
\* that ends the empty section leaves the chunk list as it is, and no body
\* of a chunk holds heading text.
C26_EmptySection ==
  [][/\ (Entering("h") /\ Remainder = <<>>) =>
          all_chunks' = all_chunks /\ buffer' = <<>>
     /\ (ch_pc = "traverse" /\ pos > Len(nodes) /\ Remainder = <<>>) =>
          all_chunks' = all_chunks
     /\ \A c \in NewChunks :
          \A i \in 1..Len(BodyOf(c)) : BodyOf(c)[i] \notin HeadingWords]_vars

\* a document of two headings and nothing else was chunked: both are on the
\* stack and there is no chunk
C26_Witness ==
  /\ ch_pc = "done"
  /\ all_chunks = <<>>
  /\ Len(heading_stack) = 2
  /\ flush_calls = 0

HasHeading(doc) == \E i \in 1..Len(doc.nodes) : doc.nodes[i].k = "h"

\* C27: every chunk has a non-empty text that starts with the breadcrumb
\* current at its flush: the page title, then the texts of the heading
\* stack, joined by " > "; in a document without headings that is the page
\* title alone; the page title is the host of the URL when the document has
\* no title.
C27_Breadcrumb ==
  [][/\ \A c \in NewChunks :
          /\ c.text # <<>>
          /\ get_current_context(page_title, heading_stack) # <<>>
          /\ StartsWith(c.text, get_current_context(page_title, heading_stack)
                                 \o <<"\n">>)
          /\ ~HasHeading(soup) => StartsWith(c.text, page_title \o <<"\n">>)
     /\ (ch_pc' \in {"traverse", "done"} /\ Strip(soup'.title) = <<>>) =>
          page_title' = extract_domain(soup'.url)
     /\ (ch_pc' \in {"traverse", "done"} /\ Strip(soup'.title) # <<>>) =>
          page_title' = Strip(soup'.title)]_vars

\* a document without title: a chunk under the heading X starts with the
\* host and the heading
C27_Witness ==
  /\ soup.title = <<>>
  /\ \E i \in 1..Len(all_chunks) :
       StartsWith(all_chunks[i].text,
                  extract_domain(soup.url) \o <<" ", ">", " ", "X", "\n">>)

\* a block element opens or closes: the steps that call flush_buffer(False)
AtBlockBoundary == EnteringTag(BLOCK_TAGS) \/ LeavingTag(BLOCK_TAGS)

\* C28: a soft flush of a buffer whose text is below MIN_TOKENS emits no
\* chunk and leaves the buffer as it is (ensure_newline has run before it),
\* and the text of the next text node is appended behind the short text.
C28_SoftFlushNoOp ==
  [][/\ (AtBlockBoundary /\ Remainder # <<>>
           /\ count_tokens(Remainder) < MIN_TOKENS) =>
          /\ all_chunks' = all_chunks
          /\ flush_calls' = flush_calls
          /\ buffer' = ensure_newline(buffer)
     /\ Entering("text") => IsPrefix(buffer, buffer') /\ all_chunks' = all_chunks
    ]_vars

\* the short text of one block, a newline and the text of the next block
\* are in the buffer together, and no chunk was emitted in between
C28_Witness ==
  /\ ch_pc = "traverse"
  /\ all_chunks = <<>>
  /\ Len(buffer) = 3
  /\ buffer[1] = CollapseWhitespace(TxtShort)
  /\ buffer[2] = <<"\n">>
  /\ Strip(buffer[3]) # <<>>

ExampleCrumb1 == ExampleTitle \o <<" ", ">", " ", "Overview">>
ExampleCrumb2 == ExampleCrumb1 \o <<" ", ">", " ", "Wiring">>

\* C8: the example document yields exactly two chunks, the first with the
\* breadcrumb "Solar Array > Overview" and the first paragraph, the second
\* with "Solar Array > Overview > Wiring" and the second paragraph.
C8_Example ==
  (ch_pc = "done" /\ soup = ExampleDoc) =>
     /\ Len(all_chunks) = 2
     /\ all_chunks[1].text = ExampleCrumb1 \o <<"\n">> \o ExampleP1
     /\ all_chunks[2].text = ExampleCrumb2 \o <<"\n">> \o ExampleP2

(***************************************************************************)
(* sync_confluence_space: the incremental sync controller.  Time is        *)
(* counted in ticks, TicksPerMinute of them in a minute.                   *)
(***************************************************************************)

limit == 2
NumPages == limit + 1
TicksPerMinute == 2
MaxClock == 2
MaxEdits == 1
MaxSyncRuns == 2

PageIds == 1..NumPages
NoSync == -1
NoMeta == [version |-> -1, url |-> 0, last_seen |-> -1]

\* what ingest_confluence_page finds in a page: a body ("ok"), no body even
\* after get_page_by_id ("empty"), no webui or self link ("nolink"), a body
\* whose chunking or storing raises ("badchunk")
PageKinds == {"ok", "empty", "nolink", "badchunk"}

\* the spaces of the runs: the kinds of the pages follow one of the patterns
KindPatterns ==
  << <<"ok", "nolink", "empty", "badchunk">>,
     <<"badchunk", "ok", "ok", "nolink">> >>

KindAssignments ==
  { [p \in PageIds |-> KindPatterns[k][((p - 1) % 4) + 1]] :
      k \in 1..Len(KindPatterns) }

\* the times of the last edits before the first run
TimeAssignments ==
  { [p \in PageIds |-> 0], [p \in PageIds |-> p % 2] }

\* now_ts.strftime("%Y-%m-%d %H:%M"): the time cut to the minute
ToMinute(t) == (t \div TicksPerMinute) * TicksPerMinute

\* --- the external source: the CQL search of lines 84-100 and 113-120
Matching(up, since) ==
  {p \in PageIds : since = NoSync \/ up[p].modified > since}

\* ORDER BY lastModified DESC (pages of equal time by id)
Before(up, q, p) ==
  \/ up[q].modified > up[p].modified
  \/ up[q].modified = up[p].modified /\ q < p

Rank(up, S, p) == Cardinality({q \in S : Before(up, q, p)})

Ordered(up, S) ==
  [i \in 1..Cardinality(S) |-> CHOOSE p \in S : Rank(up, S, p) = i - 1]

PageOf(up, p) == [id |-> p, version |-> up[p].version, kind |-> up[p].kind]

Slice(all, first, last) ==
  [i \in 1..(IF last >= first THEN last - first + 1 ELSE 0) |->
     all[first + i - 1]]

cql(up, since, from, lim) ==
  [i \in 1..Len(Slice(Ordered(up, Matching(up, since)), from + 1,
                      Min(from + lim, Cardinality(Matching(up, since))))) |->
     PageOf(up, Ordered(up, Matching(up, since))[from + i])]

\* --- the stores.  The metadata table and the deletion by url are imported
\* from standardscraper, which does not define them.

\* the stored record of a page id of the batch, NoMeta when there is none
get_confluence_metadata(meta, pid) == meta[pid]

\* upsert of one record
update_confluence_metadata(meta, rec) ==
  [meta EXCEPT ![rec.page_id] =
     [version |-> rec.version, url |-> rec.url, last_seen |-> rec.last_seen]]

\* every chunk of the url is removed
delete_page_chunks(store, u) == SelectSeq(store, LAMBDA c : c.url # u)

\* process_scrape_html, lines 249-254: the chunks of the body are inserted
process_scrape_html(store, u, version) ==
  Append(store, [url |-> u, body |-> version])

\* lines 216-227: the url of a page
PageUrl(page) == page.id

\* a variant that never finds a stored version
NoStoredVersion(stored_meta) == -1

\* line 165: stored_meta.get('version', -1)
StoredVersion(stored_meta) == stored_meta.version

\* a variant that skips only a strictly newer stored version
VersionGateStrict(stored_meta, current_version_number) ==
  stored_meta # NoMeta /\ StoredVersion(stored_meta) > current_version_number

\* lines 164-168: the version check
VersionGate(stored_meta, current_version_number) ==
  stored_meta # NoMeta /\ StoredVersion(stored_meta) >= current_version_number

NoItem == [id |-> 0, outcome |-> "none"]

SyncIdle ==
  /\ sync_pc = "idle"
  /\ confluence_pages = [p \in PageIds |-> [version |-> 1, modified |-> 0, kind |-> "ok"]]
  /\ clock = 0
  /\ edits = 0
  /\ stop_flag = FALSE
  /\ sync_state = NoSync
  /\ incremental = TRUE
  /\ last_sync = NoSync
  /\ now_ts = 0
  /\ start = 0
  /\ pages = <<>>
  /\ metadata_map = <<>>
  /\ item = 0
  /\ confluence_meta = [p \in PageIds |-> NoMeta]
  /\ web_chunks = <<>>
  /\ sync_runs = 0
  /\ ingest_calls = {}
  /\ settled = {}
  /\ quiet = TRUE
  /\ last_item = NoItem

SyncInit ==
  /\ sync_pc = "idle"
  /\ \E kinds \in KindAssignments :
       \E times \in TimeAssignments :
         confluence_pages =
           [p \in PageIds |->
              [version |-> 1, modified |-> times[p], kind |-> kinds[p]]]
  /\ clock = 1
  /\ edits = 0
  /\ stop_flag = FALSE
  /\ sync_state = NoSync
  /\ incremental = TRUE
  /\ last_sync = NoSync
  /\ now_ts = 0
  /\ start = 0
  /\ pages = <<>>
  /\ metadata_map = <<>>
  /\ item = 0
  /\ confluence_meta = [p \in PageIds |-> NoMeta]
  /\ web_chunks = <<>>
  /\ sync_runs = 0
  /\ ingest_calls = {}
  /\ settled = {}
  /\ quiet = TRUE
  /\ last_item = NoItem

\* lines 65-104 from a start: the run's locals
BeginSync(inc) ==
  /\ sync_pc \in {"idle", "done"}
  /\ sync_runs < MaxSyncRuns
  /\ incremental' = inc
  /\ last_sync' = IF inc THEN sync_state ELSE NoSync
  /\ now_ts' = clock
  /\ start' = 0
  /\ sync_pc' = "query"
  /\ sync_runs' = sync_runs + 1
  /\ quiet' = (sync_runs = 0 \/ quiet)
  /\ last_item' = NoItem
  /\ UNCHANGED <<confluence_pages, clock, edits, sync_state, pages,
                 metadata_map, item, confluence_meta, web_chunks,
                 ingest_calls, settled>>

\* llm.py lines 397-428: "Start Sync" clears the flag and runs an
\* incremental sync
StartSyncUI ==
  /\ BeginSync(TRUE)
  /\ stop_flag' = FALSE
  /\ UNCHANGED notSync

\* lines 278-294, update_confluence: a full sync
StartSyncCLI ==
  /\ BeginSync(FALSE)
  /\ UNCHANGED stop_flag
  /\ UNCHANGED notSync

\* llm.py lines 402-406: "Stop Sync" sets the flag
SetStopFlag ==
  /\ sync_pc \in {"query", "batch"}
  /\ ~stop_flag
  /\ stop_flag' = TRUE
  /\ UNCHANGED <<sync_pc, confluence_pages, clock, edits, sync_state,
                 incremental, last_sync, now_ts, start, pages, metadata_map,
                 item, confluence_meta, web_chunks, sync_runs, ingest_calls,
                 settled, quiet, last_item>>
  /\ UNCHANGED notSync

\* lines 113-149: one page of results and the stored records of its items;
\* no results end the loop
Query ==
  /\ sync_pc = "query"
  /\ \E found \in {cql(confluence_pages, last_sync, start, limit)} :
       /\ pages' = found
       /\ metadata_map' =
            [i \in 1..Len(found) |->
               get_confluence_metadata(confluence_meta, found[i].id)]
  /\ item' = 1
  /\ sync_pc' = IF pages' = <<>> THEN "save" ELSE "batch"
  /\ UNCHANGED <<confluence_pages, clock, edits, stop_flag, sync_state,
                 incremental, last_sync, now_ts, start, confluence_meta,
                 web_chunks, sync_runs, ingest_calls, settled, quiet,
                 last_item>>
  /\ UNCHANGED notSync

\* lines 192-194: the search raises, the loop ends
QueryError ==
  /\ sync_pc = "query"
  /\ sync_pc' = "failed"
  /\ UNCHANGED <<confluence_pages, clock, edits, stop_flag, sync_state,
                 incremental, last_sync, now_ts, start, pages, metadata_map,
                 item, confluence_meta, web_chunks, sync_runs, ingest_calls,
                 settled, quiet, last_item>>
  /\ UNCHANGED notSync

AtItem == sync_pc = "batch" /\ item <= Len(pages)

Outcome(page, outcome) == [id |-> page.id, outcome |-> outcome]

\* lines 160-168: the stored version is current, the item is skipped
SkipItem ==
  /\ AtItem
  /\ VersionGate(metadata_map[item], pages[item].version)
  /\ item' = item + 1
  /\ settled' = settled \cup {<<sync_runs, pages[item].id>>}
  /\ last_item' = Outcome(pages[item], "skipped")
  /\ UNCHANGED <<sync_pc, confluence_pages, clock, edits, stop_flag,
                 sync_state, incremental, last_sync, now_ts, start, pages,
                 metadata_map, confluence_meta, web_chunks, sync_runs,
                 ingest_calls, quiet>>
  /\ UNCHANGED notSync

\* lines 266-273: the chunks of the url are replaced by those of the body
StoreBody(store, page) ==
  IF page.kind = "ok"
  THEN process_scrape_html(delete_page_chunks(store, PageUrl(page)),
                           PageUrl(page), page.version)
  ELSE store

\* lines 170-180: ingest_confluence_page returns {'url': url}, the record of
\* the item is stored
IngestItem ==
  /\ AtItem
  /\ ~VersionGate(metadata_map[item], pages[item].version)
  /\ pages[item].kind \in {"ok", "empty"}
  /\ web_chunks' = StoreBody(web_chunks, pages[item])
  /\ confluence_meta' =
       update_confluence_metadata(confluence_meta,
         [page_id |-> pages[item].id, version |-> pages[item].version,
          url |-> PageUrl(pages[item]), last_seen |-> now_ts])
  /\ item' = item + 1
  /\ ingest_calls' = ingest_calls \cup {<<sync_runs, pages[item].id>>}
  /\ settled' = settled \cup {<<sync_runs, pages[item].id>>}
  /\ last_item' = Outcome(pages[item], "ingested")
  /\ UNCHANGED <<sync_pc, confluence_pages, clock, edits, stop_flag,
                 sync_state, incremental, last_sync, now_ts, start, pages,
                 metadata_map, sync_runs, quiet>>
  /\ UNCHANGED notSync

\* a variant of IngestFails without the try of lines 159-183: the exception
\* reaches the except of lines 192-194 and the loop is left
IngestFailsAborts ==
  /\ AtItem
  /\ ~VersionGate(metadata_map[item], pages[item].version)
  /\ pages[item].kind \in {"nolink", "badchunk"}
  /\ web_chunks' =
       IF pages[item].kind = "badchunk"
       THEN delete_page_chunks(web_chunks, PageUrl(pages[item]))
       ELSE web_chunks
  /\ sync_pc' = "failed"
  /\ ingest_calls' = ingest_calls \cup {<<sync_runs, pages[item].id>>}
  /\ last_item' = Outcome(pages[item], "failed")
  /\ UNCHANGED <<item, confluence_pages, clock, edits, stop_flag,
                 sync_state, incremental, last_sync, now_ts, start, pages,
                 metadata_map, confluence_meta, sync_runs, settled, quiet>>
  /\ UNCHANGED notSync

\* a variant of IngestFails that stores the record of the item although
\* ingest_confluence_page returned None
IngestFailsRecorded ==
  /\ AtItem
  /\ ~VersionGate(metadata_map[item], pages[item].version)
  /\ pages[item].kind \in {"nolink", "badchunk"}
  /\ web_chunks' =
       IF pages[item].kind = "badchunk"
       THEN delete_page_chunks(web_chunks, PageUrl(pages[item]))
       ELSE web_chunks
  /\ confluence_meta' =
       update_confluence_metadata(confluence_meta,
         [page_id |-> pages[item].id, version |-> pages[item].version,
          url |-> PageUrl(pages[item]), last_seen |-> now_ts])
  /\ item' = item + 1
  /\ ingest_calls' = ingest_calls \cup {<<sync_runs, pages[item].id>>}
  /\ last_item' = Outcome(pages[item], "failed")
  /\ UNCHANGED <<sync_pc, confluence_pages, clock, edits, stop_flag,
                 sync_state, incremental, last_sync, now_ts, start, pages,
                 metadata_map, sync_runs, settled, quiet>>
  /\ UNCHANGED notSync

\* lines 220-221 and 274-276: ingest_confluence_page returns None, nothing
\* is recorded for the item; a failed chunking has deleted the old chunks
IngestFails ==
  /\ AtItem
  /\ ~VersionGate(metadata_map[item], pages[item].version)
  /\ pages[item].kind \in {"nolink", "badchunk"}
  /\ web_chunks' =
       IF pages[item].kind = "badchunk"
       THEN delete_page_chunks(web_chunks, PageUrl(pages[item]))
       ELSE web_chunks
  /\ item' = item + 1
  /\ ingest_calls' = ingest_calls \cup {<<sync_runs, pages[item].id>>}
  /\ last_item' = Outcome(pages[item], "failed")
  /\ UNCHANGED <<sync_pc, confluence_pages, clock, edits, stop_flag,
                 sync_state, incremental, last_sync, now_ts, start, pages,
                 metadata_map, confluence_meta, sync_runs, settled, quiet>>
  /\ UNCHANGED notSync

\* a variant that asks for the same offset again
SameStart(from, n) == from

\* line 190: start += len(pages)
NextStart(from, n) == from + n

\* lines 185-190: after the last item of the batch
EndBatch ==
  /\ sync_pc = "batch"
  /\ item > Len(pages)
  /\ IF Len(pages) < limit
     THEN sync_pc' = "save" /\ UNCHANGED start
     ELSE sync_pc' = "query" /\ start' = NextStart(start, Len(pages))
  /\ UNCHANGED <<confluence_pages, clock, edits, stop_flag, sync_state,
                 incremental, last_sync, now_ts, pages, metadata_map, item,
                 confluence_meta, web_chunks, sync_runs, ingest_calls,
                 settled, quiet, last_item>>
  /\ UNCHANGED notSync

\* lines 200-208: the watermark is saved and the run returns; the lines
\* follow the loop whichever break ended it
SaveState ==
  /\ sync_pc \in {"save", "failed"}
  /\ sync_state' = ToMinute(now_ts)
  /\ sync_pc' = "done"
  /\ incremental' = TRUE
  /\ last_sync' = NoSync
  /\ now_ts' = 0
  /\ start' = 0
  /\ pages' = <<>>
  /\ metadata_map' = <<>>
  /\ item' = 0
  /\ UNCHANGED <<confluence_pages, clock, edits, stop_flag, confluence_meta,
                 web_chunks, sync_runs, ingest_calls, settled, quiet,
                 last_item>>
  /\ UNCHANGED notSync

\* the bodies an edit can leave: one of the same kind, or, for a page whose
\* chunks are in the index, an empty one
EditedKinds(kind, chunked) == IF chunked THEN {kind, "empty"} ELSE {kind}

\* the environment: a page of the space is edited
UpstreamEdit ==
  /\ edits < MaxEdits
  /\ \E p \in PageIds :
       \E kind \in EditedKinds(confluence_pages[p].kind,
                               \E i \in 1..Len(web_chunks) :
                                  web_chunks[i].url = p) :
         confluence_pages' =
           [confluence_pages EXCEPT ![p].version = @ + 1,
                                    ![p].modified = clock,
                                    ![p].kind = kind]
  /\ edits' = edits + 1
  /\ quiet' = FALSE
  /\ UNCHANGED <<sync_pc, clock, stop_flag, sync_state, incremental,
                 last_sync, now_ts, start, pages, metadata_map, item,
                 confluence_meta, web_chunks, sync_runs, ingest_calls,
                 settled, last_item>>
  /\ UNCHANGED notSync

\* the environment: time passes
Tick ==
  /\ clock < MaxClock
  /\ clock' = clock + 1
  /\ UNCHANGED <<sync_pc, confluence_pages, edits, stop_flag, sync_state,
                 incremental, last_sync, now_ts, start, pages, metadata_map,
                 item, confluence_meta, web_chunks, sync_runs, ingest_calls,
                 settled, quiet, last_item>>
  /\ UNCHANGED notSync

SyncNext ==
  \/ StartSyncUI
  \/ StartSyncCLI
  \/ SetStopFlag
  \/ Query
  \/ QueryError
  \/ SkipItem
  \/ IngestItem
  \/ IngestFails
  \/ EndBatch
  \/ SaveState
  \/ UpstreamEdit
  \/ Tick

\* the steps of sync_confluence_space between its call and its return
SyncStep ==
  \/ Query
  \/ QueryError
  \/ SkipItem
  \/ IngestItem
  \/ IngestFails
  \/ EndBatch
  \/ SaveState

\* --- Properties of the sync.

IngestedIn(run) == {p \in PageIds : <<run, p>> \in ingest_calls}
SettledIn(run) == {p \in PageIds : <<run, p>> \in settled}

\* C6 as stated: when the source does not change between or during two
\* successive runs, the second run calls ingest_confluence_page for no item.
C6_SecondRunIngestsNothing ==
  (sync_runs = 2 /\ quiet) => IngestedIn(2) = {}

\* C6: when the source does not change between or during two successive
\* runs, the second run calls ingest_confluence_page for no item that the
\* first run ingested with a result or skipped; an item whose ingestion
\* returned no result in the first run is passed to it again.
C6_SecondRunIngestsNoSettledItem ==
  (sync_runs = 2 /\ quiet) => IngestedIn(2) \cap SettledIn(1) = {}

C6_Witness ==
  /\ sync_runs = 2
  /\ quiet
  /\ sync_pc = "done"
  /\ SettledIn(1) # {}
  /\ SettledIn(1) \subseteq SettledIn(2)
  /\ IngestedIn(2) # {}

\* the stored record of the current item is at least as new as the item
StoredIsCurrent ==
  /\ AtItem
  /\ confluence_meta[pages[item].id] # NoMeta
  /\ confluence_meta[pages[item].id].version >= pages[item].version

\* C7: an item with a stored record whose version is at least the item's
\* current version is not passed to ingest_confluence_page, and the step
\* leaves its stored chunks, version, url and last_seen unchanged.
C7_VersionGatedSkip ==
  [][StoredIsCurrent =>
       /\ ingest_calls' = ingest_calls
       /\ confluence_meta' = confluence_meta
       /\ web_chunks' = web_chunks]_vars

C7_Witness ==
  /\ last_item.outcome = "skipped"
  /\ sync_runs = 2
  /\ confluence_meta[last_item.id] # NoMeta
  /\ \E i \in 1..Len(web_chunks) : web_chunks[i].url = last_item.id

\* C10: the controller checks the cancellation flag before every batch and
\* before every item; once the flag is set it starts no further item of the
\* batch and no further batch.
C10_Cancellation ==
  [][stop_flag => /\ item' = item
                  /\ ~(sync_pc = "query" /\ sync_pc' = "batch")]_vars

\* C16: the watermark of the space is written only after a scan whose every
\* query succeeded; a run whose paginated query raised leaves the stored
\* watermark as it was.
C16_WatermarkOnlyOnSuccess ==
  [][sync_pc = "failed" => sync_state' = sync_state]_vars

\* the chunks stored for the url of a page
ChunksOf(store, p) ==
  {i \in 1..Len(store) : store[i].url = p}

\* C32: whenever the controller stores a new version for an item, the chunks
\* stored before for the item's url have been deleted: after the step no chunk
\* made from an older version of the item is in the index, also when the body
\* of the new version is empty.
C32_ReingestReplaces ==
  [][\A p \in PageIds :
       confluence_meta'[p].version # confluence_meta[p].version
         => \A i \in ChunksOf(web_chunks', p) :
              web_chunks'[i].body = confluence_meta'[p].version]_vars

\* ingest_confluence_page returns a result for the page: it has a link and
\* its body is empty or is chunked without an exception
ReturnsResult(page) == page.kind \in {"ok", "empty"}

\* C33: the stored version of an item changes only in the iteration in which
\* ingest_confluence_page returned a result for that item, the new stored
\* version is the item's current version, and the stored version of an item
\* never decreases.
C33_StoredVersionAdvances ==
  [][\A p \in PageIds :
       confluence_meta'[p] # confluence_meta[p]
         => /\ AtItem
            /\ pages[item].id = p
            /\ ReturnsResult(pages[item])
            /\ ingest_calls' = ingest_calls \cup {<<sync_runs, p>>}
            /\ confluence_meta'[p].version = pages[item].version
            /\ confluence_meta'[p].version >= confluence_meta[p].version]_vars

\* a second run has stored a newer version of a page over an older one, and
\* an item whose ingestion returned no result has no stored version
C33_Witness ==
  /\ sync_runs = 2
  /\ last_item.outcome = "ingested"
  /\ confluence_meta[last_item.id].version = 2
  /\ \E i \in 1..Len(web_chunks) :
       web_chunks[i].url = last_item.id /\ web_chunks[i].body = 2
  /\ \E p \in PageIds :
       /\ <<1, p>> \in ingest_calls
       /\ confluence_meta[p] = NoMeta

\* the ingestion of page p failed in the run: ingest_confluence_page was
\* called for it, no call of the run returned a result, and its stored
\* version is still below its current version
FailedIn(run, p) ==
  /\ <<run, p>> \in ingest_calls
  /\ <<run, p>> \notin settled
  /\ confluence_meta[p].version < confluence_pages[p].version

\* C34: an item whose ingestion failed in one run is returned by the query of
\* the next incremental run and is passed to ingest_confluence_page again:
\* when the second run is incremental and its scan ends without a query
\* error, every item that failed in the first run has been passed to
\* ingest_confluence_page in the second.
C34_FailedRetried ==
  [][(/\ sync_runs = 2
      /\ incremental
      /\ sync_pc = "save"
      /\ sync_pc' = "done")
       => \A p \in PageIds : FailedIn(1, p) => <<2, p>> \in ingest_calls]_vars

\* the step is the failed ingestion of the current item
ItemFails ==
  /\ AtItem
  /\ ingest_calls' # ingest_calls
  /\ last_item'.outcome = "failed"

\* C35: a failing item does not stop the sync.  The step in which the
\* ingestion of an item fails leaves every stored version as it was and goes
\* on to the next item of the same batch; the items of a batch are taken one
\* by one, the batch is left only after its last item, and after a full
\* batch the next batch is queried.
C35_FailureAbsorbed ==
  [][/\ ItemFails
         => /\ confluence_meta' = confluence_meta
            /\ sync_pc' = "batch"
            /\ item' = item + 1
            /\ pages' = pages /\ start' = start
     /\ (sync_pc = "batch" /\ sync_pc' = "batch" /\ item' # item)
         => item' = item + 1 /\ last_item'.id = pages[item].id
     /\ (sync_pc = "batch" /\ sync_pc' # "batch")
         => /\ item = Len(pages) + 1
            /\ Len(pages) = limit
                 => sync_pc' = "query" /\ start' = start + limit
    ]_vars

\* after the failure of an item of the first batch the other item of that
\* batch and the item of the second batch have been ingested
C35_Witness ==
  /\ sync_pc = "batch"
  /\ start = limit
  /\ last_item.outcome = "ingested"
  /\ \E p \in PageIds :
       <<sync_runs, p>> \in ingest_calls /\ <<sync_runs, p>> \notin settled
  /\ Cardinality({p \in PageIds : <<sync_runs, p>> \in settled}) >= 2

InLoop == sync_pc \in {"query", "batch"}

\* C40: the pagination loop of sync_confluence_space terminates; start
\* strictly increases on every iteration that continues, and the loop ends
\* on an empty page, on a page shorter than the page limit, or on a query
\* error.
C40_ScanTerminates ==
  /\ [][/\ (sync_pc = "batch" /\ sync_pc' = "query") => start' > start
        /\ (InLoop /\ ~InLoop')
            => \/ sync_pc = "query" /\ pages' = <<>> /\ sync_pc' = "save"
               \/ /\ sync_pc = "batch" /\ sync_pc' = "save"
                  /\ item > Len(pages) /\ Len(pages) < limit
               \/ sync_pc = "query" /\ sync_pc' = "failed"
       ]_vars
  /\ (InLoop ~> ~InLoop)

\* the loop has ended on an empty page after a full batch
C40_Witness ==
  /\ sync_pc = "save"
  /\ start = limit
  /\ pages = <<>>

(***************************************************************************)
(* Specifications.                                                         *)
(***************************************************************************)

InitNorm == NormInit /\ ScrapeIdle /\ ChunkIdle /\ SyncIdle /\ WorkersIdle

SpecNorm == InitNorm /\ [][NormNext]_vars

InitScrape == ScrapeInit /\ NormIdle /\ ChunkIdle /\ SyncIdle /\ WorkersIdle

SpecScrape == InitScrape /\ [][ScrapeNext]_vars

\* the single thread of scrape takes its next step whenever it has one: weak
\* fairness of every step of the loop and of the start of a run.  For
\* StartRun, Dequeue and ExtractLink the enabling condition is written out.
SpecScrapeLive ==
  /\ InitScrape
  /\ [][ScrapeLiveNext]_vars
  /\ WF_vars(Finish)
  /\ WF_vars(Request)
  /\ WF_vars(ReadChunk \/ EndOfBody)
  /\ WF_vars(ParseAndChunk \/ ChunkRaises)
  /\ WF_vars(MarkProcessed)
  /\ ([]<>(~(pc = "idle" /\ runs < MaxRuns)) \/ []<><<StartRun>>_vars)
  /\ ([]<>(~(pc = "loop" /\ queue # <<>>)) \/ []<><<Dequeue>>_vars)
  /\ ([]<>(~(pc = "links" /\ links # <<>>)) \/ []<><<ExtractLink>>_vars)

InitChunk == ChunkInit /\ NormIdle /\ ScrapeIdle /\ SyncIdle /\ WorkersIdle

SpecChunk == InitChunk /\ [][ChunkNext]_vars

InitSync == SyncInit /\ NormIdle /\ ScrapeIdle /\ ChunkIdle /\ WorkersIdle

SpecSync == InitSync /\ [][SyncNext]_vars

\* the thread of sync_confluence_space takes its next step whenever it has
\* one; the starts of runs, the edits of the source and the clock are not
\* forced
SpecSyncLive == InitSync /\ [][SyncNext]_vars /\ WF_vars(SyncStep)

InitWorkers ==
  WorkersInit /\ NormIdle /\ ScrapeIdle /\ ChunkIdle /\ SyncIdle

SpecWorkers == InitWorkers /\ [][WorkersNext]_vars

====
